---- MODULE Spec2Model ----
(***************************************************************************)
(* Span consensus and conflict-resolution engine of pdfmasking.            *)
(*                                                                         *)
(* Scores are confidence values in [0,1]; they are modelled in hundredths  *)
(* (0.7 is 70), so every sum and comparison of the source is exact.        *)
(* Texts are sequences of characters, each a string: an ASCII character    *)
(* is itself, any other character is named by its code point ("U+5E74").   *)
(***************************************************************************)
EXTENDS Integers, Sequences, FiniteSets, TLC

VARIABLES
    pc,             \* position of the running call
    language,       \* Masker.analyze: language argument
    results_en,     \* Masker.analyze: results of the "en" analysis
    results_ja,     \* Masker.analyze: results of the "ja" (or single language) analysis
    results,        \* Masker.analyze: list handed to deduplicate_results
    deduplicated,   \* Masker.analyze: returned list
    rerun,          \* deduplicate_results applied to its own output
    candidates,     \* CandidateVerifier.verify: the candidates argument
    verification_results,   \* CandidateVerifier.verify: returned list
    recognizer_results,     \* convert_verification_results: returned list
    pattern_results,        \* dual_detection_analyze: results of the pattern analyzer
    transformer_results,    \* dual_detection_analyze: results of the transformer recognizers
    confirmed_results,      \* dual_detection_analyze: returned list
    dual_scores,            \* dual_detection_analyze: returned dict, keyed by <<start, end>>
    caller,         \* detector calls: the function that makes them
    calls,          \* detector calls: the detectors still to be called, in call order
    gathered,       \* detector calls: results collected so far (all_results)
    warnings,       \* detector calls: warnings.warn messages, one per caught failure
    detector_log,   \* detector calls: what each detector called so far did
    recognizer,     \* adapter: the recognizer class and its preload_model flag
    model_loaded,   \* adapter: self._model is not None
    inferences,     \* adapter: number of model runs
    requested,      \* adapter: the entities argument of the last analyze call
    returned,       \* adapter: what the last analyze call returned
    real_uses,      \* adapter: number of analyze calls with a supported entity
    found,          \* extractor: candidates of the regex extractors and NER engines
    extracted,      \* extractor: list returned by extract
    category_table, \* normalize_entity_type: the entity_categories argument
    entity_type_arg,        \* normalize_entity_type: the entity_type argument
    normalized,     \* normalize_entity_type: returned value
    raw_text,       \* document: the text extracted from the file
    normalized_text,        \* document: StructureRestorer._normalize_text(raw_text)
    segments,       \* document: list returned by StructureRestorer.restore
    anonymizer_text,        \* document: the text argument of anonymizer.anonymize
    ner_tokens,     \* token walk: label, score and offsets of each token
    ner_entities,   \* token walk: list returned by _build_entities
    original_text,  \* span recovery: the text given to analyze
    masked_text,    \* span recovery: the generated text, tags and characters
    gpt_requested,  \* span recovery: the requested entity types
    gpt_results,    \* span recovery: list returned by _recover_spans
    discard_log,    \* span recovery: the entries written by _log_discard
    instances,      \* ModelRegistry._instances
    load_errors,    \* ModelRegistry._load_errors
    creations,      \* ModelRegistry: calls of _create_recognizer, per model id
    registry_log,   \* ModelRegistry: the get and list_models calls and what they returned
    handlers,       \* logging.getLogger("masking").handlers
    log_files,      \* the lines written to each document's log file
    doc_pc,         \* position of each document in process_file
    logged          \* number of audit lines each document has logged

maskerVars == <<language, results_en, results_ja, results, deduplicated, rerun>>
verifierVars == <<candidates, verification_results, recognizer_results>>
dualVars == <<pattern_results, transformer_results, confirmed_results, dual_scores>>
callVars == <<caller, calls, gathered, warnings, detector_log>>
adapterVars == <<recognizer, model_loaded, inferences, requested, returned, real_uses>>
extractorVars == <<found, extracted>>
normalizerVars == <<category_table, entity_type_arg, normalized>>
documentVars == <<raw_text, normalized_text, segments, anonymizer_text>>
nerVars == <<ner_tokens, ner_entities>>
gptVars == <<original_text, masked_text, gpt_requested, gpt_results, discard_log>>
registryVars == <<instances, load_errors, creations, registry_log>>
loggerVars == <<handlers, log_files, doc_pc, logged>>
toolVars == <<nerVars, gptVars, registryVars, loggerVars>>
laterVars == <<documentVars, toolVars>>
earlyVars == <<maskerVars, verifierVars, dualVars, callVars, adapterVars,
               extractorVars, normalizerVars>>
vars == <<pc, maskerVars, verifierVars, dualVars, callVars, adapterVars,
          extractorVars, normalizerVars, laterVars>>

\* the variables of the other components
notMasker == <<verifierVars, dualVars, callVars, adapterVars, extractorVars,
               normalizerVars,
    laterVars>>
notVerifier == <<maskerVars, dualVars, callVars, adapterVars, extractorVars,
                 normalizerVars,
    laterVars>>
notDual == <<maskerVars, verifierVars, callVars, adapterVars, extractorVars,
             normalizerVars,
    laterVars>>
notCalls == <<maskerVars, verifierVars, dualVars, adapterVars, extractorVars,
              normalizerVars,
    laterVars>>
notAdapter == <<maskerVars, verifierVars, dualVars, callVars, extractorVars,
                normalizerVars,
    laterVars>>
notExtractor == <<maskerVars, verifierVars, dualVars, callVars, adapterVars,
                  normalizerVars,
    laterVars>>
notNormalizer == <<maskerVars, verifierVars, dualVars, callVars, adapterVars,
                   extractorVars,
    laterVars>>

----------------------------------------------------------------------------
(* Bounds *)

MaxResults == 3     \* detector results per analysis call
MaxBatch == 2       \* candidates per verify call, policy scenarios
MaxCandidates == 3  \* candidates per verify call, collision scenarios
MaxPattern == 2     \* pattern-side results per dual detection call
MaxTransformer == 2 \* transformer-side results per dual detection call
MaxRecognizers == 2 \* ML recognizers of the registry
MaxInferences == 2  \* model runs of one recognizer
MaxFound == 3       \* candidates found before the local merge
MaxCategories == 3  \* categories of an entity_categories table

----------------------------------------------------------------------------
(* Generic helpers *)

Min2(a, b) == IF a <= b THEN a ELSE b
Max2(a, b) == IF a >= b THEN a ELSE b

\* Python's sorted()/list.sort(): stable, Less is the strict order of the keys
StableSort(s, Less(_, _)) ==
    LET n == Len(s)
        rank(i) == 1 + Cardinality({j \in 1..n :
                        \/ Less(s[j], s[i])
                        \/ (~Less(s[i], s[j]) /\ j < i)})
    IN  [k \in 1..n |-> s[CHOOSE i \in 1..n : rank(i) = k]]

\* set(range(start, end))
Positions(r) == r.start .. (r.end - 1)

SeqToSet(s) == {s[i] : i \in DOMAIN s}

\* all orderings of the elements of s
PermutationsOf(s) ==
    LET n == Len(s)
    IN  {[k \in 1..n |-> s[f[k]]] : f \in {g \in [1..n -> 1..n] :
            \A a, b \in 1..n : a # b => g[a] # g[b]}}

----------------------------------------------------------------------------
(* core/processors/result.py *)

\* key=lambda x: (-x.score, x.start)
DedupKeyLess(x, y) ==
    \/ x.score > y.score
    \/ (x.score = y.score /\ x.start < y.start)

RECURSIVE DedupScan(_, _, _)
DedupScan(sorted_results, covered_positions, acc) ==
    IF sorted_results = <<>> THEN acc
    ELSE LET result == Head(sorted_results)
             result_positions == Positions(result)
         IN  IF result_positions \cap covered_positions # {}
             THEN DedupScan(Tail(sorted_results), covered_positions, acc)
             ELSE DedupScan(Tail(sorted_results),
                            covered_positions \cup result_positions,
                            Append(acc, result))

\* a sort key under which no element precedes another
StartNeverLess(x, y) == FALSE

StartLess(x, y) == x.start < y.start

\* deduplicate_results whose loop starts at the second sorted result
deduplicate_results_skip_first(rs) ==
    IF rs = <<>> THEN rs
    ELSE StableSort(DedupScan(Tail(StableSort(rs, DedupKeyLess)), {}, <<>>), StartLess)

deduplicate_results(rs) ==
    IF rs = <<>> THEN rs
    ELSE StableSort(DedupScan(StableSort(rs, DedupKeyLess), {}, <<>>), StartLess)

\* key=lambda x: (-x.score, -(x.end - x.start), x.start)
MergeKeyLess(x, y) ==
    \/ x.score > y.score
    \/ (x.score = y.score /\ (x.end - x.start) > (y.end - y.start))
    \/ (x.score = y.score /\ (x.end - x.start) = (y.end - y.start)
            /\ x.start < y.start)

\* the loop of merge_results that skips a span covered on half of its length
RECURSIVE MergeScanHalfSkipped(_, _, _)
MergeScanHalfSkipped(sorted_results, covered_positions, acc) ==
    IF sorted_results = <<>> THEN acc
    ELSE LET result == Head(sorted_results)
             result_positions == Positions(result)
             overlap == result_positions \cap covered_positions
         IN  IF 2 * Cardinality(overlap) >= Cardinality(result_positions)
             THEN MergeScanHalfSkipped(Tail(sorted_results), covered_positions, acc)
             ELSE MergeScanHalfSkipped(Tail(sorted_results),
                            covered_positions \cup result_positions,
                            Append(acc, result))

RECURSIVE MergeScan(_, _, _)
MergeScan(sorted_results, covered_positions, acc) ==
    IF sorted_results = <<>> THEN acc
    ELSE LET result == Head(sorted_results)
             result_positions == Positions(result)
             overlap == result_positions \cap covered_positions
         IN  \* len(overlap) > len(result_positions) * 0.5
             IF 2 * Cardinality(overlap) > Cardinality(result_positions)
             THEN MergeScan(Tail(sorted_results), covered_positions, acc)
             ELSE MergeScan(Tail(sorted_results),
                            covered_positions \cup result_positions,
                            Append(acc, result))

merge_results(en, ja) ==
    LET all_results == en \o ja
    IN  IF all_results = <<>> THEN all_results
        ELSE StableSort(MergeScan(StableSort(all_results, MergeKeyLess), {}, <<>>),
                        StartLess)

----------------------------------------------------------------------------
(* core/masker.py: Masker.analyze with the transformer disabled *)

\* the (entity type, score) pairs the modelled detectors report
ResultKinds == {<<"PERSON", 90>>, <<"LOCATION", 90>>, <<"PERSON", 50>>}

\* the <<start, end>> ranges the modelled detectors report
ResultSpans == {<<0, 2>>, <<1, 3>>, <<0, 3>>, <<2, 3>>}

\* a RecognizerResult that passes _is_meaningful_entity: text[start:end] is not empty
RecognizerResults ==
    {[entity_type |-> k[1], start |-> sp[1], end |-> sp[2], score |-> k[2]] :
        k \in ResultKinds, sp \in ResultSpans}

MaskerIdle ==
    /\ language = "none"
    /\ results_en = <<>>
    /\ results_ja = <<>>
    /\ results = <<>>
    /\ deduplicated = <<>>
    /\ rerun = <<>>

VerifierIdle ==
    /\ candidates = <<>>
    /\ verification_results = <<>>
    /\ recognizer_results = <<>>

DualIdle ==
    /\ pattern_results = <<>>
    /\ transformer_results = <<>>
    /\ confirmed_results = <<>>
    /\ dual_scores = <<>>

CallsIdle ==
    /\ caller = "none"
    /\ calls = <<>>
    /\ gathered = <<>>
    /\ warnings = <<>>
    /\ detector_log = <<>>

AdapterIdle ==
    /\ recognizer = "none"
    /\ model_loaded = FALSE
    /\ inferences = 0
    /\ requested = {}
    /\ returned = <<>>
    /\ real_uses = 0

ExtractorIdle ==
    /\ found = <<>>
    /\ extracted = <<>>

NormalizerIdle ==
    /\ category_table = <<>>
    /\ entity_type_arg = "none"
    /\ normalized = "none"

DocumentIdle ==
    /\ raw_text = <<>>
    /\ normalized_text = <<>>
    /\ segments = <<>>
    /\ anonymizer_text = <<>>

NerIdle ==
    /\ ner_tokens = <<>>
    /\ ner_entities = <<>>

GptIdle ==
    /\ original_text = <<>>
    /\ masked_text = <<>>
    /\ gpt_requested = {}
    /\ gpt_results = <<>>
    /\ discard_log = <<>>

RegistryIdle ==
    /\ instances = <<>>
    /\ load_errors = <<>>
    /\ creations = <<>>
    /\ registry_log = <<>>

LoggerIdle ==
    /\ handlers = <<>>
    /\ log_files = <<>>
    /\ doc_pc = <<>>
    /\ logged = <<>>

ToolsIdle == NerIdle /\ GptIdle /\ RegistryIdle /\ LoggerIdle

LaterIdle == DocumentIdle /\ ToolsIdle

\* the components other than Masker.analyze, verify and dual detection
OthersIdle ==
    CallsIdle /\ AdapterIdle /\ ExtractorIdle /\ NormalizerIdle /\ LaterIdle

MaskerInit ==
    /\ pc = "analyze_en"
    /\ language \in {"auto", "ja"}
    /\ results_en = <<>>
    /\ results_ja = <<>>
    /\ results = <<>>
    /\ deduplicated = <<>>
    /\ rerun = <<>>
    /\ VerifierIdle
    /\ DualIdle
    /\ OthersIdle

\* analyzer.analyze(language="en") reports one more result
AnalyzeEn ==
    /\ pc = "analyze_en"
    /\ language = "auto"
    /\ Len(results_en) < MaxResults
    /\ \E r \in RecognizerResults : results_en' = Append(results_en, r)
    /\ UNCHANGED <<pc, language, results_ja, results, deduplicated, rerun>>
    /\ UNCHANGED notMasker

\* analyzer.analyze(language="ja" or the requested language) reports one more result
AnalyzeJa ==
    /\ pc \in {"analyze_en", "analyze_ja"}
    /\ Len(results_en) + Len(results_ja) < MaxResults
    /\ \E r \in RecognizerResults : results_ja' = Append(results_ja, r)
    /\ pc' = "analyze_ja"
    /\ UNCHANGED <<language, results_en, results, deduplicated, rerun>>
    /\ UNCHANGED notMasker

\* the rest of Masker.analyze: merge (language auto), filter, deduplicate
MaskerAnalyze ==
    /\ pc \in {"analyze_en", "analyze_ja"}
    /\ results' = IF language = "auto" THEN merge_results(results_en, results_ja)
                  ELSE results_ja
    /\ deduplicated' = deduplicate_results(results')
    /\ pc' = "analyzed"
    /\ UNCHANGED <<language, results_en, results_ja, rerun>>
    /\ UNCHANGED notMasker

\* deduplicate_results called on the list a previous call returned
Deduplicate ==
    /\ pc = "analyzed"
    /\ rerun' = deduplicate_results(deduplicated)
    /\ pc' = "deduplicated"
    /\ UNCHANGED <<language, results_en, results_ja, results, deduplicated>>
    /\ UNCHANGED notMasker

MaskerNext == AnalyzeEn \/ AnalyzeJa \/ MaskerAnalyze \/ Deduplicate

SpecMasker == MaskerInit /\ [][MaskerNext]_vars

----------------------------------------------------------------------------
(* Characters and regular-expression pieces used by the verifier *)

Digits == {"0", "1", "2", "3", "4", "5", "6", "7", "8", "9"}
LowerLetters == {"a", "b", "c", "d", "e", "f", "g", "h", "i", "j", "k", "l", "m",
                 "n", "o", "p", "q", "r", "s", "t", "u", "v", "w", "x", "y", "z"}
UpperLetters == {"A", "B", "C", "D", "E", "F", "G", "H", "I", "J", "K", "L", "M",
                 "N", "O", "P", "Q", "R", "S", "T", "U", "V", "W", "X", "Y", "Z"}
AsciiLetters == LowerLetters \cup UpperLetters
\* a character outside ASCII is written as its code point
IdeographicSpace == "U+3000"
PostalMark == "U+3012"
Nen == "U+5E74"
Gatsu == "U+6708"
Nichi == "U+65E5"
\* kana and kanji (ranges 3040-30FF, 4E00-9FFF) that occur in the modelled texts
JapaneseLetters == {"U+7530", "U+4E2D", Nen, Gatsu, Nichi}
\* str.strip() removes these at both ends
Whitespace == {" ", IdeographicSpace, "\t", "\n"}

DigitVal(c) ==
    CASE c = "0" -> 0 [] c = "1" -> 1 [] c = "2" -> 2 [] c = "3" -> 3
      [] c = "4" -> 4 [] c = "5" -> 5 [] c = "6" -> 6 [] c = "7" -> 7
      [] c = "8" -> 8 [] c = "9" -> 9

\* str.lower() on one character
LowerChar(c) ==
    CASE c = "A" -> "a" [] c = "B" -> "b" [] c = "C" -> "c" [] c = "D" -> "d"
      [] c = "E" -> "e" [] c = "F" -> "f" [] c = "G" -> "g" [] c = "H" -> "h"
      [] c = "I" -> "i" [] c = "J" -> "j" [] c = "K" -> "k" [] c = "L" -> "l"
      [] c = "M" -> "m" [] c = "N" -> "n" [] c = "O" -> "o" [] c = "P" -> "p"
      [] c = "Q" -> "q" [] c = "R" -> "r" [] c = "S" -> "s" [] c = "T" -> "t"
      [] c = "U" -> "u" [] c = "V" -> "v" [] c = "W" -> "w" [] c = "X" -> "x"
      [] c = "Y" -> "y" [] c = "Z" -> "z" [] OTHER -> c

Lower(text) == [i \in DOMAIN text |-> LowerChar(text[i])]

RECURSIVE LStrip(_)
LStrip(text) ==
    IF text # <<>> /\ Head(text) \in Whitespace THEN LStrip(Tail(text)) ELSE text

RECURSIVE RStrip(_)
RStrip(text) ==
    IF text # <<>> /\ text[Len(text)] \in Whitespace
    THEN RStrip(SubSeq(text, 1, Len(text) - 1)) ELSE text

\* str.strip()
Strip(text) == RStrip(LStrip(text))

\* str.replace(ch, '')
Remove(text, ch) == SelectSeq(text, LAMBDA c : c # ch)

\* text[from .. to] consists of characters of class only
AllIn(text, from, to, class) == \A k \in from..to : text[k] \in class

\* int() of the decimal digits text[from .. to]
RECURSIVE IntOf(_, _, _)
IntOf(text, from, to) ==
    IF to < from THEN 0
    ELSE 10 * IntOf(text, from, to - 1) + DigitVal(text[to])

\* A pattern is a sequence of pieces [class, min, max]: between min and max
\* characters of class.  Ends(text, pattern) is the set of lengths of the
\* prefixes of text that the concatenation of the pieces matches.
Piece(class, min, max) == [class |-> class, min |-> min, max |-> max, bounded |-> TRUE]
AtLeast(class, min) == [class |-> class, min |-> min, max |-> min, bounded |-> FALSE]
Lit(c) == Piece({c}, 1, 1)
Opt(c) == Piece({c}, 0, 1)

RECURSIVE Ends(_, _)
Ends(text, pattern) ==
    IF pattern = <<>> THEN {0}
    ELSE LET n == Len(pattern)
             piece == pattern[n]
             before == Ends(text, SubSeq(pattern, 1, n - 1))
         IN  {e \in 0..Len(text) :
                \E b \in before :
                    /\ e - b >= piece.min
                    /\ (piece.bounded => e - b <= piece.max)
                    /\ AllIn(text, b + 1, e, piece.class)}

\* pattern.match(text) for a pattern that ends with $ (text holds no newline)
FullMatch(text, pattern) == Len(text) \in Ends(text, pattern)

----------------------------------------------------------------------------
(* core/processors/candidate_verifier.py: configuration *)

mask_threshold == 70
review_threshold == 50

NoPolicy == [person_penalty |-> 0, person_boost |-> 0,
             address_penalty |-> 0, address_boost |-> 0]

\* verification.section_policies: the defaults of the code and one configured
\* section that sets a penalty and a boost together
section_policies ==
    [education |-> [NoPolicy EXCEPT !.person_penalty = -30, !.address_penalty = -20],
     experience |-> [NoPolicy EXCEPT !.person_penalty = -30, !.address_penalty = -20],
     contact |-> [NoPolicy EXCEPT !.person_boost = 20, !.address_boost = 20],
     skills |-> [NoPolicy EXCEPT !.person_penalty = -30, !.person_boost = 10,
                                  !.address_penalty = -20, !.address_boost = 20]]

DEFAULT_PRIORITY ==
    <<"EMAIL_ADDRESS", "PHONE_NUMBER_JP", "PHONE_NUMBER", "JP_ZIP_CODE",
      "US_ZIP_CODE", "JP_ADDRESS", "LOCATION", "JP_PERSON", "PERSON",
      "DATE_OF_BIRTH_JP", "DATE", "JP_AGE", "JP_GENDER">>

\* candidate_extraction.entity_priority is not configured
entity_priority == DEFAULT_PRIORITY

\* the allow_list section of the configuration
allow_list_config ==
    [enabled |-> TRUE,
     additional_terms |-> {<<"I", "n", "c">>, <<"R", " ", "D">>}]

\* text.lower().strip().replace(' ', '').replace(ideographic space, '')
NormalizeText(text) ==
    Remove(Remove(Strip(Lower(text)), " "), IdeographicSpace)

\* _load_allow_list: self.allow_list
allow_list ==
    IF allow_list_config.enabled THEN allow_list_config.additional_terms ELSE {}

\* _load_allow_list: self.allow_list_normalized
allow_list_normalized == {NormalizeText(term) : term \in allow_list}

----------------------------------------------------------------------------
(* core/processors/candidate_verifier.py: per-candidate checks *)

\* IsInAllowList that compares the raw text with the normalized terms only
IsInAllowListNormalizedOnly(text) == text \in allow_list_normalized

IsInAllowList(text) ==
    \/ text \in allow_list
    \/ NormalizeText(text) \in allow_list_normalized

\* Clamp01 without the upper limit
ClampLowerOnly(x) == Max2(0, x)

Clamp01(x) == Max2(0, Min2(100, x))

\* ApplySectionPolicy that forgets the boost when a penalty is configured
ApplySectionPolicyPenaltyOnly(candidate, score) ==
    LET section_type == candidate.section_type
        policy == IF section_type \in DOMAIN section_policies
                  THEN section_policies[section_type] ELSE
                  [person_penalty |-> 0, person_boost |-> 0,
                   address_penalty |-> 0, address_boost |-> 0]
        Net(penalty, boost) == IF penalty # 0 THEN penalty ELSE boost
        adjustment ==
            IF candidate.entity_type \in {"JP_PERSON", "PERSON"}
            THEN Net(policy.person_penalty, policy.person_boost)
            ELSE IF candidate.entity_type \in {"JP_ADDRESS", "LOCATION"}
            THEN Net(policy.address_penalty, policy.address_boost)
            ELSE 0
    IN  IF adjustment = 0 THEN <<score, "">>
        ELSE <<Max2(0, Min2(100, score + adjustment)),
               IF adjustment < 0 THEN "section_penalty:" \o section_type
               ELSE "section_boost:" \o section_type>>

\* returns <<adjusted score, reason>>
ApplySectionPolicy(candidate, score) ==
    LET section_type == candidate.section_type
        entity_type == candidate.entity_type
        policy == IF section_type \in DOMAIN section_policies
                  THEN section_policies[section_type] ELSE NoPolicy
        person_adjustment == policy.person_penalty + policy.person_boost
        address_adjustment == policy.address_penalty + policy.address_boost
        Adjusted(adjustment) ==
            <<Clamp01(score + adjustment),
              IF adjustment < 0 THEN "section_penalty:" \o section_type
              ELSE "section_boost:" \o section_type>>
    IN  IF entity_type \in {"JP_PERSON", "PERSON"} /\ person_adjustment # 0
        THEN Adjusted(person_adjustment)
        ELSE IF entity_type \in {"JP_ADDRESS", "LOCATION"} /\ address_adjustment # 0
        THEN Adjusted(address_adjustment)
        ELSE <<score, "">>

EmailLocal == AsciiLetters \cup Digits \cup {".", "_", "%", "+", "-"}
\* the second alternative also admits kana, kanji and \w
EmailLocalJp == EmailLocal \cup JapaneseLetters
EmailDomain == AsciiLetters \cup Digits \cup {".", "-"}

EMAIL_VALID_PATTERN(text) ==
    \/ FullMatch(text, <<AtLeast(EmailLocal, 1), Lit("@"), AtLeast(EmailDomain, 1),
                         Lit("."), AtLeast(AsciiLetters, 2)>>)
    \/ FullMatch(text, <<AtLeast(EmailLocalJp, 1), Lit("@"), AtLeast(EmailDomain, 1),
                         Lit("."), AtLeast(AsciiLetters, 2)>>)

PHONE_JP_VALID(text) ==
    \/ FullMatch(text, <<Lit("0"), Piece(Digits, 1, 4), Opt("-"),
                         Piece(Digits, 1, 4), Opt("-"), Piece(Digits, 4, 4)>>)
    \/ FullMatch(text, <<Lit("+"), Lit("8"), Lit("1"), Opt("-"), Piece(Digits, 1, 4),
                         Opt("-"), Piece(Digits, 1, 4), Opt("-"), Piece(Digits, 4, 4)>>)

PHONE_EN_VALID(text) ==
    \/ FullMatch(text, <<Lit("+"), Lit("1"), Opt("-"), Piece(Digits, 3, 3), Opt("-"),
                         Piece(Digits, 3, 3), Opt("-"), Piece(Digits, 4, 4)>>)
    \/ FullMatch(text, <<Lit("("), Piece(Digits, 3, 3), Lit(")"),
                         Piece(Whitespace, 0, 1), Piece(Digits, 3, 3), Lit("-"),
                         Piece(Digits, 4, 4)>>)

JP_ZIP_VALID(text) ==
    FullMatch(text, <<Opt(PostalMark), AtLeast(Whitespace, 0), Piece(Digits, 3, 3),
                      Lit("-"), Piece(Digits, 4, 4)>>)

US_ZIP_VALID(text) ==
    \/ FullMatch(text, <<Piece(Digits, 5, 5)>>)
    \/ FullMatch(text, <<Piece(Digits, 5, 5), Lit("-"), Piece(Digits, 4, 4)>>)

\* DateInRange without the check of the year
DateInRangeNoYear(year, month, day) ==
    /\ 1 <= month /\ month <= 12
    /\ 1 <= day /\ day <= 31

\* 1 <= month <= 12 and 1 <= day <= 31, then 1900 <= year <= 2100
DateInRange(year, month, day) ==
    /\ 1 <= month /\ month <= 12
    /\ 1 <= day /\ day <= 31
    /\ 1900 <= year /\ year <= 2100

\* text[from ..] starts with exactly n digits available (n digits present)
DigitsAt(text, from, n) ==
    /\ from + n - 1 <= Len(text)
    /\ AllIn(text, from, from + n - 1, Digits)

CharAt(text, pos, c) == pos <= Len(text) /\ text[pos] = c

\* re.match(r'(\d{4})-(\d{2})-(\d{2})', text) and the range check
IsoDateValid(text) ==
    /\ DigitsAt(text, 1, 4) /\ CharAt(text, 5, "-")
    /\ DigitsAt(text, 6, 2) /\ CharAt(text, 8, "-")
    /\ DigitsAt(text, 9, 2)
    /\ DateInRange(IntOf(text, 1, 4), IntOf(text, 6, 7), IntOf(text, 9, 10))

\* re.match(r'(\d{4})<nen>(\d{1,2})<gatsu>(\d{1,2})<nichi>', text) and the range check
JpDateValid(text) ==
    /\ DigitsAt(text, 1, 4) /\ CharAt(text, 5, Nen)
    /\ \E m \in 1..2 :
        /\ DigitsAt(text, 6, m) /\ CharAt(text, 6 + m, Gatsu)
        /\ \E d \in 1..2 :
            /\ DigitsAt(text, 7 + m, d) /\ CharAt(text, 7 + m + d, Nichi)
            /\ DateInRange(IntOf(text, 1, 4), IntOf(text, 6, 5 + m),
                           IntOf(text, 7 + m, 6 + m + d))

\* re.match(r'(\d{4})/(\d{1,2})/(\d{1,2})', text) and the range check; the
\* last group is greedy: it takes two digits when two are there
SlashDateValid(text) ==
    /\ DigitsAt(text, 1, 4) /\ CharAt(text, 5, "/")
    /\ \E m \in 1..2 :
        /\ DigitsAt(text, 6, m) /\ CharAt(text, 6 + m, "/")
        /\ DigitsAt(text, 7 + m, 1)
        /\ LET d == IF DigitsAt(text, 7 + m, 2) THEN 2 ELSE 1
           IN  DateInRange(IntOf(text, 1, 4), IntOf(text, 6, 5 + m),
                           IntOf(text, 7 + m, 6 + m + d))

ValidateDate(text) ==
    IsoDateValid(text) \/ JpDateValid(text) \/ SlashDateValid(text)

\* returns <<is_valid, reason>>
ValidateFormat(candidate) ==
    LET entity_type == candidate.entity_type
        text == Strip(candidate.text)
        Verdict(ok, kind) ==
            IF ok THEN <<TRUE, "format_valid:" \o kind>>
            ELSE <<FALSE, "format_invalid:" \o kind>>
    IN  CASE entity_type = "EMAIL_ADDRESS" ->
                Verdict(EMAIL_VALID_PATTERN(text), "email")
          [] entity_type = "PHONE_NUMBER_JP" ->
                Verdict(PHONE_JP_VALID(Remove(Remove(text, " "), IdeographicSpace)),
                        "phone_jp")
          [] entity_type = "PHONE_NUMBER" ->
                Verdict(PHONE_EN_VALID(Remove(text, " ")), "phone_en")
          [] entity_type = "JP_ZIP_CODE" -> Verdict(JP_ZIP_VALID(text), "jp_zip")
          [] entity_type = "US_ZIP_CODE" -> Verdict(US_ZIP_VALID(text), "us_zip")
          [] entity_type \in {"DATE_OF_BIRTH_JP", "DATE"} ->
                Verdict(ValidateDate(text), "date")
          [] OTHER -> <<TRUE, "">>

\* ClassifyScore with strict comparisons
ClassifyScoreStrict(score) ==
    IF score > mask_threshold THEN "mask"
    ELSE IF score > review_threshold THEN "review"
    ELSE "exclude"

\* mask / review / exclude by the two thresholds
ClassifyScore(score) ==
    IF score >= mask_threshold THEN "mask"
    ELSE IF score >= review_threshold THEN "review"
    ELSE "exclude"

VerificationResult(candidate, verified_score, status, reason) ==
    [candidate |-> candidate, verified_score |-> verified_score,
     status |-> status, reason |-> reason]

\* "; ".join(reasons) if reasons else "passed_verification"
JoinReasons(section_reason, valid_reason) ==
    IF section_reason # "" /\ valid_reason # ""
    THEN section_reason \o "; " \o valid_reason
    ELSE IF section_reason # "" THEN section_reason
    ELSE IF valid_reason # "" THEN valid_reason
    ELSE "passed_verification"

VerifySingle(candidate) ==
    IF IsInAllowList(candidate.text)
    THEN VerificationResult(candidate, 0, "exclude", "allow_list_match")
    ELSE LET adjusted == ApplySectionPolicy(candidate, candidate.score)
             format == ValidateFormat(candidate)
         IN  IF ~format[1]
             THEN VerificationResult(candidate, 0, "exclude", format[2])
             ELSE VerificationResult(candidate, adjusted[1],
                                     ClassifyScore(adjusted[1]),
                                     JoinReasons(adjusted[2], format[2]))

----------------------------------------------------------------------------
(* core/processors/candidate_verifier.py: collision resolution and verify *)

\* Overlaps that only sees a span contained in the other
OverlapsContained(c1, c2) ==
    \/ (c1.start <= c2.start /\ c2.end <= c1.end)
    \/ (c2.start <= c1.start /\ c1.end <= c2.end)

\* not (c1.end <= c2.start or c2.end <= c1.start)
Overlaps(c1, c2) == ~(c1.end <= c2.start \/ c2.end <= c1.start)

\* GetPriority that never finds the entity type
GetPriorityAbsent(candidate) == Len(entity_priority)

\* self.entity_priority.index(entity_type), len(self.entity_priority) when absent
GetPriority(candidate) ==
    IF \E i \in DOMAIN entity_priority : entity_priority[i] = candidate.entity_type
    THEN (CHOOSE i \in DOMAIN entity_priority :
            /\ entity_priority[i] = candidate.entity_type
            /\ \A j \in 1..(i - 1) : entity_priority[j] # candidate.entity_type) - 1
    ELSE Len(entity_priority)

\* list.remove(x): drops the first element equal to x
RemoveFirst(s, x) ==
    LET i == CHOOSE k \in DOMAIN s : s[k] = x /\ \A j \in 1..(k - 1) : s[j] # x
    IN  SubSeq(s, 1, i - 1) \o SubSeq(s, i + 1, Len(s))

\* a loser that is excluded under the reason it already had
CollisionLoserUnmarked(r) == VerificationResult(r.candidate, 0, "exclude", r.reason)

CollisionLoser(r) ==
    VerificationResult(r.candidate, 0, "exclude", "collision_lower_priority")

ResultStartLess(x, y) == x.candidate.start < y.candidate.start

\* the loop over the sorted active results; returns resolved + excluded
RECURSIVE CollisionScan(_, _, _)
CollisionScan(active, resolved, excluded) ==
    IF active = <<>> THEN resolved \o excluded
    ELSE LET result == Head(active)
             hits == {k \in DOMAIN resolved :
                        Overlaps(result.candidate, resolved[k].candidate)}
         IN  IF hits = {}
             THEN CollisionScan(Tail(active), Append(resolved, result), excluded)
             ELSE LET existing == resolved[CHOOSE k \in hits : \A j \in hits : k <= j]
                  IN  IF GetPriority(result.candidate) < GetPriority(existing.candidate)
                      THEN CollisionScan(Tail(active),
                                Append(RemoveFirst(resolved, existing), result),
                                Append(excluded, CollisionLoser(existing)))
                      ELSE CollisionScan(Tail(active), resolved,
                                Append(excluded, CollisionLoser(result)))

ResolveCollisions(rs) ==
    LET active == SelectSeq(rs, LAMBDA r : r.status \in {"mask", "review"})
        excluded == SelectSeq(rs, LAMBDA r : r.status = "exclude")
    IN  IF active = <<>> THEN rs
        ELSE CollisionScan(StableSort(active, ResultStartLess), <<>>, excluded)

\* CandidateVerifier.verify
Verify(cs) == ResolveCollisions([i \in DOMAIN cs |-> VerifySingle(cs[i])])

\* core/processors/result_converter.py
verification_result_to_recognizer_result(vr) ==
    [entity_type |-> vr.candidate.entity_type, start |-> vr.candidate.start,
     end |-> vr.candidate.end, score |-> vr.verified_score]

convert_verification_results(rs, include_statuses) ==
    LET kept == SelectSeq(rs, LAMBDA vr : vr.status \in include_statuses)
    IN  [i \in DOMAIN kept |-> verification_result_to_recognizer_result(kept[i])]

----------------------------------------------------------------------------
(* CandidateVerifier.verify and convert_verification_results as operations *)

Candidate(entity_type, text, start, end, score, section_type) ==
    [entity_type |-> entity_type, text |-> text, start |-> start, end |-> end,
     score |-> score, section_type |-> section_type]

EmailText == <<"a", "@", "b", ".", "c", "o">>
BrokenEmailText == <<"a", "@", "b">>
NameText == <<"T", "a">>
\* an allow-list term as configured, and one that matches after normalization
AllowedText == <<"I", "n", "c">>
AllowedVariantText == <<" ", "r", IdeographicSpace, "d">>

\* (entity type, text) of the candidates of the policy scenarios
PolicyKinds ==
    {<<"EMAIL_ADDRESS", EmailText>>, <<"EMAIL_ADDRESS", BrokenEmailText>>,
     <<"EMAIL_ADDRESS", AllowedText>>,
     <<"JP_PERSON", NameText>>, <<"PERSON", AllowedText>>,
     <<"JP_ADDRESS", NameText>>, <<"LOCATION", AllowedVariantText>>}

\* (section type, score); a section is one line of the document, so every
\* candidate of a section lies in that line's range
PolicyPlaces ==
    {<<"education", 80>>, <<"education", 20>>, <<"contact", 50>>,
     <<"contact", 90>>, <<"skills", 60>>, <<"header", 100>>, <<"header", 0>>}

SectionStart(section_type) ==
    CASE section_type = "header" -> 0
      [] section_type = "contact" -> 2
      [] section_type = "education" -> 4
      [] section_type = "skills" -> 6

PolicyCandidates ==
    {Candidate(k[1], k[2], SectionStart(p[1]), SectionStart(p[1]) + 2, p[2], p[1]) :
        k \in PolicyKinds, p \in PolicyPlaces}

\* (entity type, text, score) of the candidates of the collision scenarios
CollisionKinds ==
    {<<"EMAIL_ADDRESS", EmailText, 90>>, <<"JP_ADDRESS", NameText, 80>>,
     <<"JP_GENDER", NameText, 60>>, <<"JP_ADDRESS", NameText, 30>>}

CollisionSpans == {<<0, 2>>, <<0, 3>>, <<1, 3>>, <<2, 4>>}

CollisionCandidates ==
    {Candidate(k[1], k[2], sp[1], sp[2], k[3], "header") :
        k \in CollisionKinds, sp \in CollisionSpans}

VerifierInit ==
    /\ pc = "extract"
    /\ VerifierIdle
    /\ MaskerIdle
    /\ DualIdle
    /\ OthersIdle

\* the extractor hands over one more candidate (policy scenarios)
ExtractCandidate ==
    /\ pc = "extract"
    /\ Len(candidates) < MaxBatch
    /\ \E c \in PolicyCandidates : candidates' = Append(candidates, c)
    /\ UNCHANGED <<pc, verification_results, recognizer_results>>
    /\ UNCHANGED notVerifier

\* the extractor hands over one more candidate (collision scenarios)
ExtractColliding ==
    /\ pc = "extract"
    /\ Len(candidates) < MaxCandidates
    /\ \E c \in CollisionCandidates : candidates' = Append(candidates, c)
    /\ UNCHANGED <<pc, verification_results, recognizer_results>>
    /\ UNCHANGED notVerifier

\* results = verifier.verify(candidates)
VerifyCandidates ==
    /\ pc = "extract"
    /\ verification_results' = Verify(candidates)
    /\ pc' = "verified"
    /\ UNCHANGED <<candidates, recognizer_results>>
    /\ UNCHANGED notVerifier

\* convert_verification_results(results, include_statuses)
ConvertResults ==
    /\ pc = "verified"
    /\ \E include_statuses \in {{"mask"}, {"mask", "review"}} :
        recognizer_results' =
            convert_verification_results(verification_results, include_statuses)
    /\ pc' = "converted"
    /\ UNCHANGED <<candidates, verification_results>>
    /\ UNCHANGED notVerifier

VerifierNext == ExtractCandidate \/ VerifyCandidates \/ ConvertResults
SpecVerifier == VerifierInit /\ [][VerifierNext]_vars

CollisionNext == ExtractColliding \/ VerifyCandidates \/ ConvertResults
SpecCollision == VerifierInit /\ [][CollisionNext]_vars

----------------------------------------------------------------------------
(* verify called with one date candidate *)

DateYears == {<<"1", "8", "9", "9">>, <<"1", "9", "0", "0">>, <<"1", "9", "9", "0">>,
              <<"2", "1", "0", "0">>, <<"2", "1", "0", "1">>}
DateMonths == {<<"0">>, <<"1">>, <<"9">>, <<"0", "0">>, <<"0", "1">>,
               <<"1", "2">>, <<"1", "3">>}
DateDays == {<<"0">>, <<"1">>, <<"9">>, <<"0", "0">>, <<"0", "1">>,
             <<"3", "1">>, <<"3", "2">>}
\* the separators after year, month and day; what follows the date
DateShapes ==
    {<<"-", "-", <<>>>>, <<"-", "-", <<"x">>>>,
     <<"/", "/", <<>>>>, <<"/", "/", <<"x">>>>,
     <<Nen, Gatsu, <<Nichi>>>>, <<Nen, Gatsu, <<Nichi, "x">>>>, <<Nen, Gatsu, <<>>>>}

DateTexts ==
    {lead \o y \o <<sh[1]>> \o m \o <<sh[2]>> \o d \o sh[3] :
        lead \in {<<>>, <<" ">>}, y \in DateYears, m \in DateMonths,
        d \in DateDays, sh \in DateShapes}

DateCandidates ==
    {Candidate(type, text, 0, Len(text), 90, "header") :
        type \in {"DATE", "DATE_OF_BIRTH_JP"}, text \in DateTexts}

DatesInit ==
    /\ pc = "extract"
    /\ \E c \in DateCandidates : candidates = <<c>>
    /\ verification_results = <<>>
    /\ recognizer_results = <<>>
    /\ MaskerIdle
    /\ DualIdle
    /\ OthersIdle

DatesNext == VerifyCandidates \/ ConvertResults
SpecDates == DatesInit /\ [][DatesNext]_vars

----------------------------------------------------------------------------
(* core/processors/dual_detection.py *)

\* the entity_categories table of the configuration, in its iteration order
entity_categories ==
    <<[category |-> "person", types |-> <<"PERSON", "JP_PERSON">>],
      [category |-> "location", types |-> <<"LOCATION", "JP_ADDRESS">>]>>

\* str.upper() of a category name
Upper(name) ==
    CASE name = "person" -> "PERSON"
      [] name = "location" -> "LOCATION"
      [] name = "address" -> "ADDRESS"
      [] name = "Contact" -> "CONTACT"
      [] OTHER -> name

\* normalize_entity_type that goes on to the last category holding the type
NormalizeInLast(entity_type, categories) ==
    LET hits == {i \in DOMAIN categories :
                    entity_type \in SeqToSet(categories[i].types)}
    IN  IF hits = {} THEN entity_type
        ELSE Upper(categories[CHOOSE i \in hits : \A j \in hits : j <= i].category)

RECURSIVE NormalizeIn(_, _)
NormalizeIn(entity_type, categories) ==
    IF categories = <<>> THEN entity_type
    ELSE IF entity_type \in SeqToSet(Head(categories).types)
    THEN Upper(Head(categories).category)
    ELSE NormalizeIn(entity_type, Tail(categories))

normalize_entity_type(entity_type) == NormalizeIn(entity_type, entity_categories)

\* a table under which the pattern-only types need consensus as well
consensus_for_every_type ==
    UNION {SeqToSet(entity_categories[i].types) : i \in DOMAIN entity_categories}
        \cup {"PHONE_NUMBER_JP"}

dual_detection_entity_types ==
    UNION {SeqToSet(entity_categories[i].types) : i \in DOMAIN entity_categories}

\* SignificantOverlap without the 50% threshold
AnyOverlap(p_result, t_result) ==
    Positions(p_result) \cap Positions(t_result) # {}

\* min_span_len > 0 and len(overlap) >= min_span_len * 0.5
SignificantOverlap(p_result, t_result) ==
    LET p_span == Positions(p_result)
        t_span == Positions(t_result)
        overlap == p_span \cap t_span
        min_span_len == Min2(Cardinality(p_span), Cardinality(t_span))
    IN  min_span_len > 0 /\ 2 * Cardinality(overlap) >= min_span_len

DualMatch(p_result, t_result) ==
    /\ SignificantOverlap(p_result, t_result)
    /\ normalize_entity_type(p_result.entity_type)
            = normalize_entity_type(t_result.entity_type)

\* dict[key] = value
DictPut(dict, key, value) ==
    [k \in DOMAIN dict \cup {key} |-> IF k = key THEN value ELSE dict[k]]

\* the loop over pattern_results; returns <<confirmed_results, dual_scores>>
RECURSIVE ConsensusScan(_, _, _, _)
ConsensusScan(p_results, t_results, confirmed, scores) ==
    IF p_results = <<>> THEN <<confirmed, scores>>
    ELSE LET p_result == Head(p_results)
             matches == {k \in DOMAIN t_results : DualMatch(p_result, t_results[k])}
         IN  IF p_result.entity_type \notin dual_detection_entity_types
             THEN ConsensusScan(Tail(p_results), t_results,
                                Append(confirmed, p_result), scores)
             ELSE IF matches = {}
             THEN ConsensusScan(Tail(p_results), t_results, confirmed, scores)
             ELSE LET t_result == t_results[CHOOSE k \in matches :
                                                \A j \in matches : k <= j]
                  IN  ConsensusScan(Tail(p_results), t_results,
                            Append(confirmed, p_result),
                            DictPut(scores, <<p_result.start, p_result.end>>,
                                    [pattern |-> p_result.score,
                                     transformer |-> t_result.score,
                                     p_type |-> p_result.entity_type,
                                     t_type |-> t_result.entity_type]))

----------------------------------------------------------------------------
(* dual_detection_analyze as operations *)

RecognizerResult(entity_type, start, end, score) ==
    [entity_type |-> entity_type, start |-> start, end |-> end, score |-> score]

PatternSpans == {<<0, 3>>, <<1, 3>>}
PatternKinds == {<<"JP_PERSON", 85>>, <<"JP_ADDRESS", 75>>, <<"PHONE_NUMBER_JP", 90>>}
TransformerSpans == {<<2, 5>>, <<2, 3>>, <<3, 5>>}
TransformerKinds == {<<"PERSON", 95>>, <<"LOCATION", 80>>, <<"ORGANIZATION", 70>>}

PatternResults ==
    {RecognizerResult(k[1], sp[1], sp[2], k[2]) : k \in PatternKinds, sp \in PatternSpans}
TransformerResults ==
    {RecognizerResult(k[1], sp[1], sp[2], k[2]) :
        k \in TransformerKinds, sp \in TransformerSpans}

DualInit ==
    /\ pc = "pattern"
    /\ DualIdle
    /\ MaskerIdle
    /\ VerifierIdle
    /\ OthersIdle

\* pattern_analyzer.analyze reports one more result
PatternAnalyze ==
    /\ pc = "pattern"
    /\ Len(pattern_results) < MaxPattern
    /\ \E r \in PatternResults : pattern_results' = Append(pattern_results, r)
    /\ UNCHANGED <<pc, transformer_results, confirmed_results, dual_scores>>
    /\ UNCHANGED notDual

\* a transformer recognizer reports one more result
TransformerAnalyze ==
    /\ pc \in {"pattern", "transformer"}
    /\ Len(transformer_results) < MaxTransformer
    /\ \E r \in TransformerResults :
            transformer_results' = Append(transformer_results, r)
    /\ pc' = "transformer"
    /\ UNCHANGED <<pattern_results, confirmed_results, dual_scores>>
    /\ UNCHANGED notDual

\* the consensus loop and the return
DualConsensus ==
    /\ pc \in {"pattern", "transformer"}
    /\ LET out == ConsensusScan(pattern_results, transformer_results, <<>>, <<>>)
       IN  /\ confirmed_results' = out[1]
           /\ dual_scores' = out[2]
    /\ pc' = "confirmed"
    /\ UNCHANGED <<pattern_results, transformer_results>>
    /\ UNCHANGED notDual

DualNext == PatternAnalyze \/ TransformerAnalyze \/ DualConsensus
SpecDual == DualInit /\ [][DualNext]_vars

----------------------------------------------------------------------------
(* Masker.analyze and CandidateVerifier.verify side by side: a run is one    *)
(* call of either                                                           *)

EngineInit == MaskerInit \/ VerifierInit
EngineNext == MaskerNext \/ CollisionNext
SpecEngine == EngineInit /\ [][EngineNext]_vars

----------------------------------------------------------------------------
(* Properties of the span merge/deduplication engine *)

\* two [start,end) ranges share a character position
RangesOverlap(a, b) == a.start < b.end /\ b.start < a.end

PairwiseDisjoint(s) ==
    \A i, j \in DOMAIN s : i # j => ~RangesOverlap(s[i], s[j])

IsActive(r) == r.status \in {"mask", "review"}

\* the mask and review results, in the order of the returned list
Surviving(rs) == SelectSeq(rs, IsActive)

Spans(rs) == [i \in DOMAIN rs |-> rs[i].candidate]

\* C1: the final span list has no two entries with overlapping [start,end)
\* ranges: the list deduplicate_results returns at the end of Masker.analyze is
\* pairwise non-overlapping, and so are the mask and review results of verify
C1_NoOverlap ==
    /\ pc = "analyzed" => PairwiseDisjoint(deduplicated)
    /\ pc = "verified" =>
            PairwiseDisjoint(Spans(Surviving(verification_results)))
    /\ pc = "converted" => PairwiseDisjoint(recognizer_results)

\* three active candidates in a chain of overlaps; two of them survive
C1_Witness ==
    /\ pc = "verified"
    /\ Len(candidates) = 3
    /\ \E i, j \in DOMAIN candidates :
            i # j /\ RangesOverlap(candidates[i], candidates[j])
    /\ Len(Surviving(verification_results)) = 2
    /\ \E k \in DOMAIN verification_results :
            verification_results[k].reason = "collision_lower_priority"

\* C5: strict dedupe is idempotent: deduplicate_results applied to its own
\* output returns the same spans in the same order
C5_DedupeIdempotent ==
    pc = "deduplicated" => rerun = deduplicated

\* a call that dropped an overlapping result, then the call on its output
C5_Witness ==
    /\ pc = "deduplicated"
    /\ language = "ja"
    /\ Len(results) = 3
    /\ Len(deduplicated) = 2
    /\ rerun = deduplicated

\* C10: the outputs of deduplicate_results, merge_results and the collision
\* resolution of verify are the same for every order in which the same
\* results were appended to the input list
C10_OrderIndependent ==
    /\ (pc = "analyzed" /\ language = "ja") =>
            \A p \in PermutationsOf(results_ja) :
                deduplicate_results(p) = deduplicated
    /\ (pc = "analyzed" /\ language = "auto") =>
            \A p \in PermutationsOf(results_en \o results_ja) :
                merge_results(p, <<>>) = results
    /\ pc = "verified" =>
            \A p \in PermutationsOf(candidates) :
                Surviving(Verify(p)) = Surviving(verification_results)

----------------------------------------------------------------------------
(* Properties of the candidate verifier *)

\* the result verify would give the candidate before collision resolution
ActiveBefore(c) == IsActive(VerifySingle(c))

\* the positions in the input of the candidates that are active before
\* collision resolution
ActiveInputs == {i \in DOMAIN candidates : ActiveBefore(candidates[i])}

KeptIn(rs, c) == \E k \in DOMAIN rs : rs[k].candidate = c /\ IsActive(rs[k])
ExcludedIn(rs, c) ==
    /\ \E k \in DOMAIN rs : rs[k].candidate = c
    /\ \A k \in DOMAIN rs : rs[k].candidate = c => rs[k].status = "exclude"

PriorityIndex(c) ==
    CASE c.entity_type = "EMAIL_ADDRESS" -> 0
      [] c.entity_type = "JP_ADDRESS" -> 5
      [] c.entity_type = "JP_GENDER" -> 12

\* C3 as stated: of any overlapping pair of active candidates the member with
\* the lower priority_index is kept and the other is excluded
C3_LowerIndexAlwaysKept ==
    pc = "verified" =>
        LET active == ActiveInputs
        IN  \A i, j \in active :
                (/\ RangesOverlap(candidates[i], candidates[j])
                 /\ PriorityIndex(candidates[i]) < PriorityIndex(candidates[j]))
                => /\ KeptIn(verification_results, candidates[i])
                   /\ ExcludedIn(verification_results, candidates[j])

\* no third active candidate of the same or a lower priority_index overlaps
\* candidates[i]
Unchallenged(active, i, j) ==
    \A k \in active \ {i, j} :
        RangesOverlap(candidates[k], candidates[i])
            => PriorityIndex(candidates[k]) > PriorityIndex(candidates[i])

\* C3 amended: of an overlapping pair of active candidates the member with the
\* lower priority_index is kept and the other is excluded, in every input
\* order, when no further active candidate of the same or a lower
\* priority_index overlaps the lower member
C3_LowerIndexKept ==
    pc = "verified" =>
        LET active == ActiveInputs
        IN  \A i, j \in active :
                (/\ RangesOverlap(candidates[i], candidates[j])
                 /\ PriorityIndex(candidates[i]) < PriorityIndex(candidates[j])
                 /\ Unchallenged(active, i, j))
                => /\ KeptIn(verification_results, candidates[i])
                   /\ ExcludedIn(verification_results, candidates[j])

\* the address candidate [0,2) comes first, the email candidate [0,3) second,
\* and only the email candidate stays active
C3_Witness ==
    /\ pc = "verified"
    /\ Len(candidates) = 2
    /\ candidates[1].entity_type = "JP_ADDRESS" /\ candidates[1].score = 80
    /\ candidates[1].start = 0 /\ candidates[1].end = 2
    /\ candidates[2].entity_type = "EMAIL_ADDRESS"
    /\ candidates[2].start = 0 /\ candidates[2].end = 3
    /\ Spans(Surviving(verification_results)) = <<candidates[2]>>

\* verify has returned; its result is not changed afterwards
VerifyDone == pc = "verified"

\* C4: a candidate whose text exactly matches an allow-list entry is excluded
\* with reason allow_list_match whatever its score, entity type or section,
\* and it never appears among the mask or review results
C4_AllowListExcluded ==
    VerifyDone =>
        /\ \A i \in DOMAIN candidates :
                candidates[i].text \in allow_list =>
                    ExcludedIn(verification_results, candidates[i])
        /\ \A k \in DOMAIN verification_results :
                verification_results[k].candidate.text \in allow_list =>
                    /\ verification_results[k].status = "exclude"
                    /\ verification_results[k].reason = "allow_list_match"

\* an allow-listed candidate with score 1.0 next to a masked one
C4_Witness ==
    /\ pc = "verified"
    /\ \E i, j \in DOMAIN candidates :
        /\ candidates[i].text \in allow_list
        /\ candidates[i].score = 100
        /\ candidates[i].entity_type = "EMAIL_ADDRESS"
        /\ ExcludedIn(verification_results, candidates[i])
        /\ KeptIn(verification_results, candidates[j])

\* C6: every verified_score verify produces lies in [0,1], and so does every
\* score converted for the anonymizer
C6_ScoreInUnitInterval ==
    /\ VerifyDone =>
        \A k \in DOMAIN verification_results :
            /\ verification_results[k].verified_score >= 0
            /\ verification_results[k].verified_score <= 100
    /\ pc = "converted" =>
        \A k \in DOMAIN recognizer_results :
            /\ recognizer_results[k].score >= 0
            /\ recognizer_results[k].score <= 100

\* a boosted score that reached 1.0 was converted, another candidate lost a
\* collision
C6_Witness ==
    /\ pc = "converted"
    /\ \E k \in DOMAIN verification_results :
        /\ verification_results[k].candidate.score = 90
        /\ verification_results[k].candidate.section_type = "contact"
        /\ verification_results[k].verified_score = 100
    /\ \E k \in DOMAIN verification_results :
        verification_results[k].reason = "collision_lower_priority"
    /\ \E k \in DOMAIN recognizer_results : recognizer_results[k].score = 100

PersonLike(c) == c.entity_type \in {"JP_PERSON", "PERSON"}
AddressLike(c) == c.entity_type \in {"JP_ADDRESS", "LOCATION"}

\* the status the thresholds give a score
StatusByThreshold(score) ==
    CASE score >= mask_threshold -> "mask"
      [] score >= review_threshold /\ score < mask_threshold -> "review"
      [] OTHER -> "exclude"

\* score plus the net adjustment, clamped to [0,1]
NetAdjusted(c) ==
    LET policy == IF c.section_type \in DOMAIN section_policies
                  THEN section_policies[c.section_type] ELSE NoPolicy
        net == IF PersonLike(c) THEN policy.person_penalty + policy.person_boost
               ELSE IF AddressLike(c)
               THEN policy.address_penalty + policy.address_boost
               ELSE 0
        sum == c.score + net
    IN  IF sum < 0 THEN 0 ELSE IF sum > 100 THEN 100 ELSE sum

\* candidates[i] overlaps no other candidate that verification leaves active
NoCollision(active, i) ==
    \A j \in active \ {i} : ~RangesOverlap(candidates[i], candidates[j])

ResultsOf(c) ==
    {verification_results[k] : k \in {n \in DOMAIN verification_results :
                                        verification_results[n].candidate = c}}

\* C7: a person-like candidate gets person_penalty + person_boost of its
\* section added to its score, an address-like candidate address_penalty +
\* address_boost; the sum is clamped to [0,1] and the adjusted score is
\* classified.  Checked on the candidates that the allow list and collision
\* resolution do not exclude.  JP_PERSON 0.8 in education: 0.5, review.
C7_SectionPolicy ==
    VerifyDone =>
        \A i \in DOMAIN candidates :
            LET c == candidates[i]
            IN  (/\ PersonLike(c) \/ AddressLike(c)
                 /\ ~IsInAllowList(c.text)
                 /\ NoCollision(ActiveInputs, i))
                => /\ ResultsOf(c) # {}
                   /\ \A r \in ResultsOf(c) :
                        /\ r.verified_score = NetAdjusted(c)
                        /\ r.status = StatusByThreshold(NetAdjusted(c))
                        /\ (/\ c.entity_type = "JP_PERSON" /\ c.score = 80
                            /\ c.section_type = "education")
                           => (r.verified_score = 50 /\ r.status = "review")

\* the scenario of the specification, and a section with penalty and boost
C7_Witness ==
    /\ pc = "verified"
    /\ \E k \in DOMAIN verification_results :
        LET r == verification_results[k]
        IN  /\ r.candidate.entity_type = "JP_PERSON"
            /\ r.candidate.score = 80
            /\ r.candidate.section_type = "education"
            /\ r.verified_score = 50
            /\ r.status = "review"
            /\ r.reason = "section_penalty:education"
    /\ \E k \in DOMAIN verification_results :
        LET r == verification_results[k]
        IN  /\ r.candidate.entity_type = "JP_PERSON"
            /\ r.candidate.section_type = "skills"
            /\ r.verified_score = 40
            /\ r.status = "exclude"

\* C8: a candidate that passes the allow-list and format checks and is in no
\* collision gets exactly one status: mask iff adjusted score >= mask_threshold,
\* review iff review_threshold <= adjusted score < mask_threshold, else exclude
C8_ThresholdClassification ==
    VerifyDone =>
        \A i \in DOMAIN candidates :
            LET c == candidates[i]
            IN  (/\ ~IsInAllowList(c.text)
                 /\ ValidateFormat(c)[1]
                 /\ NoCollision(ActiveInputs, i))
                => /\ ResultsOf(c) # {}
                   /\ \A r \in ResultsOf(c) :
                        /\ r.verified_score = NetAdjusted(c)
                        /\ r.status = "mask" <=> NetAdjusted(c) >= mask_threshold
                        /\ r.status = "review" <=>
                                (/\ review_threshold <= NetAdjusted(c)
                                 /\ NetAdjusted(c) < mask_threshold)
                        /\ r.status = "exclude" <=> NetAdjusted(c) < review_threshold

\* adjusted scores exactly on the two thresholds
C8_Witness ==
    /\ pc = "verified"
    /\ \E k \in DOMAIN verification_results :
        /\ verification_results[k].verified_score = mask_threshold
        /\ verification_results[k].status = "mask"
    /\ \E k \in DOMAIN verification_results :
        /\ verification_results[k].verified_score = review_threshold
        /\ verification_results[k].status = "review"

\* the last position of the run of digits that starts at from (from - 1 if none)
DigitRunEnd(text, from) ==
    CHOOSE e \in (from - 1)..Len(text) :
        /\ AllIn(text, from, e, Digits)
        /\ (e < Len(text) => text[e + 1] \notin Digits)

\* year, month and day as the digit runs around the separators
DateParts(text) ==
    LET y_end == DigitRunEnd(text, 1)
        m_end == DigitRunEnd(text, y_end + 2)
        d_end == DigitRunEnd(text, m_end + 2)
    IN  [year_len |-> y_end, month_len |-> m_end - (y_end + 1),
         day_len |-> d_end - (m_end + 1),
         sep1 |-> IF y_end + 1 <= Len(text) THEN text[y_end + 1] ELSE "",
         sep2 |-> IF m_end + 1 <= Len(text) /\ m_end > y_end
                  THEN text[m_end + 1] ELSE "",
         sep3 |-> IF d_end + 1 <= Len(text) /\ d_end > m_end
                  THEN text[d_end + 1] ELSE "",
         year |-> IntOf(text, 1, y_end),
         month |-> IntOf(text, y_end + 2, m_end),
         day |-> IntOf(text, m_end + 2, d_end)]

\* YYYY-MM-DD, YYYY<nen>M<gatsu>D<nichi> or YYYY/M/D
AcceptedDateShape(text) ==
    LET p == DateParts(text)
    IN  /\ p.year_len = 4
        /\ \/ (p.sep1 = "-" /\ p.sep2 = "-" /\ p.month_len = 2 /\ p.day_len = 2)
           \/ (/\ p.sep1 = Nen /\ p.sep2 = Gatsu /\ p.sep3 = Nichi
               /\ p.month_len \in 1..2 /\ p.day_len \in 1..2)
           \/ (/\ p.sep1 = "/" /\ p.sep2 = "/"
               /\ p.month_len \in 1..2 /\ p.day_len \in 1..2)

DateFieldsInRange(text) ==
    LET p == DateParts(text)
    IN  /\ p.year \in 1900..2100
        /\ p.month \in 1..12
        /\ p.day \in 1..31

\* C9: a DATE or DATE_OF_BIRTH_JP candidate of an accepted date shape is
\* excluded with reason format_invalid:date when its year is outside
\* [1900,2100], its month outside [1,12] or its day outside [1,31], and is
\* accepted (format_valid:date) when the three fields are in range
C9_DateRange ==
    VerifyDone =>
        \A k \in DOMAIN verification_results :
            LET r == verification_results[k]
                text == Strip(r.candidate.text)
            IN  (/\ r.candidate.entity_type \in {"DATE", "DATE_OF_BIRTH_JP"}
                 /\ AcceptedDateShape(text))
                => IF DateFieldsInRange(text)
                   THEN r.reason = "format_valid:date" /\ r.status = "mask"
                   ELSE /\ r.reason = "format_invalid:date"
                        /\ r.status = "exclude"
                        /\ r.verified_score = 0

\* a date of the shape YYYY/M/D with the year 2101 was rejected
C9_Witness ==
    /\ pc = "verified"
    /\ LET r == verification_results[1]
           text == Strip(r.candidate.text)
       IN  /\ AcceptedDateShape(text)
           /\ DateParts(text).sep1 = "/"
           /\ DateParts(text).year = 2101
           /\ DateParts(text).month = 1
           /\ DateParts(text).day = 31
           /\ r.reason = "format_invalid:date"
           /\ r.status = "exclude"

----------------------------------------------------------------------------
(* Properties of dual detection *)

Count(s, x) == Cardinality({k \in DOMAIN s : s[k] = x})

\* number of character positions two ranges share
OverlapLength(a, b) == Max2(0, Min2(a.end, b.end) - Max2(a.start, b.start))

\* t overlaps p on at least half of the shorter span, same normalized category
Qualifies(p, t) ==
    /\ OverlapLength(p, t) > 0
    /\ 2 * OverlapLength(p, t) >= Min2(p.end - p.start, t.end - t.start)
    /\ normalize_entity_type(p.entity_type) = normalize_entity_type(t.entity_type)

----------------------------------------------------------------------------
(* The detector calls of hybrid_detection_analyze, dual_detection_analyze,   *)
(* CandidateExtractor.extract and Masker.analyze. A detector is code outside *)
(* the function: a call of it returns a list of results or raises.          *)

Callers == {"hybrid_detection_analyze", "dual_detection_analyze",
            "CandidateExtractor.extract", "Masker.analyze"}

Detector(kind, id) == [kind |-> kind, id |-> id]

RecognizerIds == <<"r1", "r2", "r3", "r4">>

\* the recognizers the registry holds, in its order
Recognizers(kind, n) == [k \in 1..n |-> Detector(kind, RecognizerIds[k])]

\* the analyses of the rule-based analyzer engine: "en" then "ja" for
\* language "auto", else the one language asked for
EngineCalls(kind, lang) ==
    IF lang = "auto" THEN <<Detector(kind, "en"), Detector(kind, "ja")>>
    ELSE <<Detector(kind, lang)>>

\* the detector calls a function makes, in its order
CallPlan(fn, lang, n) ==
    CASE fn = "hybrid_detection_analyze" ->
            EngineCalls("pattern", lang) \o Recognizers("ml", n)
      [] fn = "dual_detection_analyze" ->
            EngineCalls("pattern", lang) \o Recognizers("transformer", n)
      [] fn = "CandidateExtractor.extract" ->
            <<Detector("ginza", "ja")>> \o Recognizers("transformer", n)
      [] fn = "Masker.analyze" -> EngineCalls("analyzer", lang)

\* the call of the detector is inside a try/except Exception of fn
Guarded(fn, detector) ==
    CASE fn = "hybrid_detection_analyze" -> detector.kind = "ml"
      [] fn = "dual_detection_analyze" -> detector.kind = "transformer"
      [] fn = "CandidateExtractor.extract" -> detector.kind \in {"ginza", "transformer"}
      [] fn = "Masker.analyze" -> FALSE

\* what one detector call can return
DetectorOutputs ==
    {<<>>,
     <<RecognizerResult("JP_PERSON", 0, 2, 85)>>,
     <<RecognizerResult("JP_PERSON", 0, 2, 85), RecognizerResult("JP_ADDRESS", 3, 5, 75)>>}

LogEntry(detector, raised, out) ==
    [detector |-> detector, raised |-> raised, results |-> out]

CallsInit ==
    /\ pc = "calling"
    /\ caller \in Callers
    /\ \E lang \in {"auto", "ja"}, n \in 0..MaxRecognizers :
            calls = CallPlan(caller, lang, n)
    /\ gathered = <<>>
    /\ warnings = <<>>
    /\ detector_log = <<>>
    /\ MaskerIdle /\ VerifierIdle /\ DualIdle
    /\ AdapterIdle /\ ExtractorIdle /\ NormalizerIdle /\ LaterIdle

\* the next detector returns its results: all_results.extend(results)
DetectorReturns ==
    /\ pc = "calling"
    /\ calls # <<>>
    /\ \E out \in DetectorOutputs :
        /\ gathered' = gathered \o out
        /\ detector_log' = Append(detector_log, LogEntry(Head(calls), FALSE, out))
    /\ calls' = Tail(calls)
    /\ UNCHANGED <<pc, caller, warnings>>
    /\ UNCHANGED notCalls

\* the next detector raises: inside a try/except the function warns and goes
\* on, otherwise the exception leaves the function
DetectorRaises ==
    /\ pc = "calling"
    /\ calls # <<>>
    /\ detector_log' = Append(detector_log, LogEntry(Head(calls), TRUE, <<>>))
    /\ IF Guarded(caller, Head(calls))
       THEN /\ warnings' = Append(warnings, Head(calls))
            /\ calls' = Tail(calls)
            /\ pc' = pc
       ELSE /\ pc' = "raised"
            /\ UNCHANGED <<warnings, calls>>
    /\ UNCHANGED <<caller, gathered>>
    /\ UNCHANGED notCalls

\* every detector was called: the function goes on with what it gathered
CallsReturn ==
    /\ pc = "calling"
    /\ calls = <<>>
    /\ pc' = "returned"
    /\ UNCHANGED <<caller, calls, gathered, warnings, detector_log>>
    /\ UNCHANGED notCalls

CallsNext == DetectorReturns \/ DetectorRaises \/ CallsReturn
SpecCalls == CallsInit /\ [][CallsNext]_vars

----------------------------------------------------------------------------
(* Properties of the detector calls *)

\* the results of the detectors of the log that did not raise, in call order
RECURSIVE ResultsOfLog(_)
ResultsOfLog(log) ==
    IF log = <<>> THEN <<>>
    ELSE ResultsOfLog(SubSeq(log, 1, Len(log) - 1)) \o log[Len(log)].results

\* C11: a detector that raises is treated as one that returned the empty
\* list: the exception never leaves the calling function, and the function
\* goes on with the results of all the other detectors
C11_FailureIsolated ==
    /\ pc # "raised"
    /\ (pc = "returned" /\ caller \in Callers) => gathered = ResultsOfLog(detector_log)

----------------------------------------------------------------------------
(* recognizers/transformer_ner.py, recognizers/gpt_pii_masker.py:           *)
(* one recognizer, from its construction on                                 *)

Recognizer(class, preload_model, require_gpu) ==
    [class |-> class, preload_model |-> preload_model, require_gpu |-> require_gpu]

\* the recognizers that can be constructed; preload_model and require_gpu are
\* parameters of GPTPIIMaskerRecognizer only
RecognizerKinds ==
    {Recognizer("TransformerNERRecognizer", FALSE, FALSE)}
    \cup {Recognizer("GPTPIIMaskerRecognizer", p, g) : p \in BOOLEAN, g \in BOOLEAN}

\* supported_entities of the modelled recognizers
supported_entities == {"JP_PERSON", "JP_ADDRESS"}

\* the entity types a caller can ask for
RequestableEntities == {"JP_PERSON", "JP_ADDRESS", "EMAIL_ADDRESS", "PHONE_NUMBER_JP"}

\* what a model run can give for the requested entities
AdapterOutputs(requested_entities) ==
    {<<>>} \cup {<<RecognizerResult(e, 0, 2, 90)>> : e \in requested_entities}

\* __init__ up to the call of the base class constructor: self._model = None
AdapterInit ==
    /\ pc = "new"
    /\ recognizer \in RecognizerKinds
    /\ model_loaded = FALSE
    /\ inferences = 0
    /\ requested = {}
    /\ returned = <<>>
    /\ real_uses = 0
    /\ MaskerIdle /\ VerifierIdle /\ DualIdle
    /\ CallsIdle /\ ExtractorIdle /\ NormalizerIdle /\ LaterIdle

\* the base class constructor calls load(): TransformerNERRecognizer.load
\* reads the model, GPTPIIMaskerRecognizer.load reads it when preload_model
\* is set (and raises when it needs a GPU that is not there)
Construct ==
    /\ pc = "new"
    /\ \E cuda \in BOOLEAN :
        IF recognizer.class = "TransformerNERRecognizer"
        THEN model_loaded' = TRUE /\ pc' = "ready"
        ELSE IF ~recognizer.preload_model
        THEN model_loaded' = FALSE /\ pc' = "ready"
        ELSE IF recognizer.require_gpu /\ ~cuda
        THEN model_loaded' = FALSE /\ pc' = "raised"
        ELSE model_loaded' = TRUE /\ pc' = "ready"
    /\ UNCHANGED <<recognizer, inferences, requested, returned, real_uses>>
    /\ UNCHANGED notAdapter

\* TransformerNERRecognizer.analyze(text, entities)
TransformerNERAnalyze ==
    /\ pc \in {"ready", "analyzed"}
    /\ recognizer.class = "TransformerNERRecognizer"
    /\ \E entities \in SUBSET RequestableEntities :
        LET requested_entities == entities \cap supported_entities
        IN  /\ requested' = entities
            /\ model_loaded' = TRUE
            /\ IF requested_entities = {}
               THEN /\ returned' = <<>>
                    /\ UNCHANGED <<inferences, real_uses>>
               ELSE /\ inferences < MaxInferences
                    /\ inferences' = inferences + 1
                    /\ real_uses' = real_uses + 1
                    /\ returned' \in AdapterOutputs(requested_entities)
    /\ pc' = "analyzed"
    /\ UNCHANGED recognizer
    /\ UNCHANGED notAdapter

\* GPTPIIMaskerRecognizer.analyze(text, entities)
GPTPIIMaskerAnalyze ==
    /\ pc \in {"ready", "analyzed"}
    /\ recognizer.class = "GPTPIIMaskerRecognizer"
    /\ \E entities \in SUBSET RequestableEntities, cuda \in BOOLEAN :
        LET requested_entities == entities \cap supported_entities
        IN  /\ requested' = entities
            /\ IF requested_entities = {}
               THEN /\ returned' = <<>>
                    /\ pc' = "analyzed"
                    /\ UNCHANGED <<model_loaded, inferences, real_uses>>
               ELSE IF ~model_loaded /\ recognizer.require_gpu /\ ~cuda
               THEN /\ real_uses < MaxInferences
                    /\ real_uses' = real_uses + 1
                    /\ pc' = "raised"
                    /\ UNCHANGED <<model_loaded, inferences, returned>>
               ELSE /\ real_uses < MaxInferences
                    /\ model_loaded' = TRUE
                    /\ inferences' = inferences + 1
                    /\ real_uses' = real_uses + 1
                    /\ returned' \in AdapterOutputs(requested_entities)
                    /\ pc' = "analyzed"
    /\ UNCHANGED recognizer
    /\ UNCHANGED notAdapter

AdapterNext == Construct \/ TransformerNERAnalyze \/ GPTPIIMaskerAnalyze
SpecAdapter == AdapterInit /\ [][AdapterNext]_vars

----------------------------------------------------------------------------
(* Properties of the recognizers *)

\* C12: an analyze call whose requested entities share nothing with the
\* supported entities returns the empty list, runs no inference and does not
\* load the model: the model is loaded only by the first call that asks for
\* a supported entity (or by construction when preload_model is set)
C12_IdleOnMismatch ==
    /\ (pc = "analyzed" /\ requested \cap supported_entities = {}) => returned = <<>>
    /\ inferences <= real_uses
    /\ model_loaded => (real_uses > 0 \/ recognizer.preload_model)

----------------------------------------------------------------------------
(* CandidateExtractor.extract: regex and NER candidates, the local merge *)

\* candidate_extraction.entity_priority is not configured: the default of
\* _load_extraction_config
extractor_entity_priority ==
    <<"EMAIL_ADDRESS", "PHONE_NUMBER_JP", "JP_ZIP_CODE", "JP_ADDRESS", "JP_PERSON">>

\* priority_key inside _merge_candidates
priority_key(c) ==
    IF \E i \in DOMAIN extractor_entity_priority :
            extractor_entity_priority[i] = c.entity_type
    THEN (CHOOSE i \in DOMAIN extractor_entity_priority :
            extractor_entity_priority[i] = c.entity_type) - 1
    ELSE Len(extractor_entity_priority)

\* key=lambda c: (c.start, priority_key(c), -c.score)
MergeCandidatesKeyLess(x, y) ==
    \/ x.start < y.start
    \/ x.start = y.start /\ priority_key(x) < priority_key(y)
    \/ x.start = y.start /\ priority_key(x) = priority_key(y) /\ x.score > y.score

\* _overlaps: not (c1.end <= c2.start or c2.end <= c1.start)
CandidatesOverlap(c1, c2) == ~(c1.end <= c2.start \/ c2.end <= c1.start)

\* a candidate that replaces every overlapping candidate it meets
CandidateAlwaysWins(candidate, existing) == TRUE

\* the replacement condition of the merge loop
CandidateWins(candidate, existing) ==
    \/ priority_key(candidate) < priority_key(existing)
    \/ /\ priority_key(candidate) = priority_key(existing)
       /\ candidate.score > existing.score

\* the loop of _merge_candidates over the sorted candidates
RECURSIVE MergeCandidatesScan(_, _)
MergeCandidatesScan(sorted_candidates, merged) ==
    IF sorted_candidates = <<>> THEN merged
    ELSE LET candidate == Head(sorted_candidates)
             hits == {k \in DOMAIN merged : CandidatesOverlap(candidate, merged[k])}
         IN  IF hits = {}
             THEN MergeCandidatesScan(Tail(sorted_candidates), Append(merged, candidate))
             ELSE LET existing == merged[CHOOSE k \in hits : \A j \in hits : k <= j]
                  IN  IF CandidateWins(candidate, existing)
                      THEN MergeCandidatesScan(Tail(sorted_candidates),
                                Append(RemoveFirst(merged, existing), candidate))
                      ELSE MergeCandidatesScan(Tail(sorted_candidates), merged)

merge_candidates(cs) ==
    IF cs = <<>> THEN <<>>
    ELSE MergeCandidatesScan(StableSort(cs, MergeCandidatesKeyLess), <<>>)

\* extract after the candidates are gathered: merge, then sort by start
ExtractResult(cs) == StableSort(merge_candidates(cs), StartLess)

\* a text PHONE_EN_PATTERNS matches
PhoneText == <<"+", "1", "5", "5", "5", "1", "2", "3", "4", "5", "6", "7">>

\* (entity type, text, score) of the regex extractors
RegexKinds == {<<"PHONE_NUMBER", PhoneText, 90>>, <<"JP_ADDRESS", NameText, 75>>,
               <<"JP_GENDER", NameText, 80>>}
\* (entity type, text, score) of the GiNZA entities
NerKinds == {<<"JP_PERSON", NameText, 70>>}
\* (start, end) of the matches in a two-line document
ExtractSpans == {<<0, 4>>, <<2, 6>>, <<4, 8>>, <<0, 8>>}

RegexCandidates ==
    {Candidate(k[1], k[2], s[1], s[2], k[3], "header") :
        k \in RegexKinds, s \in ExtractSpans}
NerCandidates ==
    {Candidate(k[1], k[2], s[1], s[2], k[3], "header") :
        k \in NerKinds, s \in ExtractSpans}

ExtractorInit ==
    /\ pc = "extracting"
    /\ ExtractorIdle
    /\ MaskerIdle
    /\ VerifierIdle
    /\ DualIdle
    /\ CallsIdle /\ AdapterIdle /\ NormalizerIdle /\ LaterIdle

\* _extract_from_segment adds a regex match
ExtractFromSegment ==
    /\ pc = "extracting"
    /\ Len(found) < MaxFound
    /\ \E c \in RegexCandidates : found' = Append(found, c)
    /\ UNCHANGED <<pc, extracted>>
    /\ UNCHANGED notExtractor

\* _extract_ner_candidates adds an entity of a NER engine
ExtractNerCandidates ==
    /\ pc = "extracting"
    /\ Len(found) < MaxFound
    /\ \E c \in NerCandidates : found' = Append(found, c)
    /\ UNCHANGED <<pc, extracted>>
    /\ UNCHANGED notExtractor

\* extract merges what was found, sorts by start and returns
ExtractReturn ==
    /\ pc = "extracting"
    /\ extracted' = ExtractResult(found)
    /\ pc' = "extracted"
    /\ UNCHANGED found
    /\ UNCHANGED notExtractor

\* TextPreprocessor.process: verify(extract(segments))
ProcessText ==
    /\ pc = "extracted"
    /\ candidates' = extracted
    /\ verification_results' = Verify(extracted)
    /\ pc' = "verified"
    /\ UNCHANGED recognizer_results
    /\ UNCHANGED <<maskerVars, dualVars, callVars, adapterVars, extractorVars,
                   normalizerVars, laterVars>>

ExtractorNext == ExtractFromSegment \/ ExtractNerCandidates \/ ExtractReturn
SpecExtractor == ExtractorInit /\ [][ExtractorNext]_vars

\* the text pipeline and the analysis calls, whose outputs are handed on in
\* start order
OrderingInit == MaskerInit \/ ExtractorInit
OrderingNext == MaskerNext \/ ExtractorNext \/ ProcessText \/ ConvertResults
SpecOrdering == OrderingInit /\ [][OrderingNext]_vars

----------------------------------------------------------------------------
(* Properties of the candidate extractor and of the final ordering *)

NonDecreasingStart(s) ==
    \A i, j \in DOMAIN s : i < j => s[i].start <= s[j].start

\* C13: the lists returned by deduplicate_results, merge_results and
\* CandidateExtractor.extract are in non-decreasing start order, and so are
\* the mask (and review) results get_recognizer_results hands on
C13_StartOrdered ==
    /\ NonDecreasingStart(deduplicated)
    /\ NonDecreasingStart(rerun)
    /\ language = "auto" => NonDecreasingStart(results)
    /\ NonDecreasingStart(extracted)
    /\ NonDecreasingStart(recognizer_results)

\* the pipeline handed on two results of candidates that were found in the
\* opposite order
C13_Witness ==
    /\ pc = "converted"
    /\ Len(found) >= 2
    /\ found[1].start > found[2].start
    /\ Len(extracted) >= 2
    /\ Len(recognizer_results) >= 2

\* C14: verify returns exactly one VerificationResult for every input
\* candidate, none dropped and none duplicated, and every active candidate
\* that loses a collision is in the returned list with status exclude and
\* reason collision_lower_priority; it overlaps another active candidate
C14_AuditTrail ==
    pc \in {"verified", "converted"} =>
        /\ Len(verification_results) = Len(candidates)
        /\ \A i \in DOMAIN candidates :
            Count(Spans(verification_results), candidates[i])
                = Count(candidates, candidates[i])
        /\ \A k \in DOMAIN verification_results :
            LET vr == verification_results[k]
                single == VerifySingle(vr.candidate)
            IN  \/ vr = single
                \/ /\ IsActive(single)
                   /\ vr.status = "exclude"
                   /\ vr.reason = "collision_lower_priority"
                   /\ Cardinality({j \in ActiveInputs :
                            RangesOverlap(candidates[j], vr.candidate)}) >= 2

\* verify returned three results of which two lost a collision
C14_Witness ==
    /\ pc = "verified"
    /\ Len(candidates) = 3
    /\ Cardinality({k \in DOMAIN verification_results :
            verification_results[k].reason = "collision_lower_priority"}) = 2
    /\ \E k \in DOMAIN verification_results : IsActive(verification_results[k])

----------------------------------------------------------------------------
(* Properties of merge_results *)

\* x comes before y in the order (-score, -(end-start), start)
ConsideredBefore(x, y) ==
    \/ x.score > y.score
    \/ x.score = y.score /\ (x.end - x.start) > (y.end - y.start)
    \/ x.score = y.score /\ (x.end - x.start) = (y.end - y.start)
            /\ x.start < y.start

\* the span at index j of all is considered before the one at index k; spans
\* that the order does not separate are considered as they arrived
EarlierIn(all, j, k) ==
    \/ ConsideredBefore(all[j], all[k])
    \/ ~ConsideredBefore(all[k], all[j]) /\ j < k

\* A holds the indices of the accepted spans of all: a span is accepted
\* unless more than half of its positions are covered by the accepted spans
\* considered before it
AcceptedIndices(all, A) ==
    \A k \in DOMAIN all :
        k \in A <=>
            2 * Cardinality(Positions(all[k]) \cap
                    UNION {Positions(all[j]) : j \in {i \in A : EarlierIn(all, i, k)}})
                <= Cardinality(Positions(all[k]))

MergeCalled == pc \in {"analyzed", "deduplicated"} /\ language = "auto"

----------------------------------------------------------------------------
(* normalize_entity_type called with any category table *)

\* categories a configuration may hold; a dict has each name once
CategoryPool ==
    {[category |-> "person", types |-> <<"PERSON", "JP_PERSON">>],
     [category |-> "person", types |-> <<"JP_PERSON">>],
     [category |-> "location", types |-> <<"LOCATION", "JP_ADDRESS">>],
     [category |-> "address", types |-> <<"JP_ADDRESS">>],
     [category |-> "Contact", types |-> <<"EMAIL_ADDRESS">>],
     [category |-> "PHONE", types |-> <<"PHONE_NUMBER_JP">>]}

\* entity types a recognizer may report; "person" is a category name only
NormalizedTypes ==
    {"PERSON", "JP_PERSON", "JP_ADDRESS", "EMAIL_ADDRESS", "PHONE_NUMBER_JP",
     "JP_GENDER", "person"}

NormalizerInit ==
    /\ pc = "config"
    /\ NormalizerIdle
    /\ MaskerIdle
    /\ VerifierIdle
    /\ DualIdle
    /\ CallsIdle /\ AdapterIdle /\ ExtractorIdle /\ LaterIdle

\* the configuration holds one more category, after those it already holds
LoadCategory ==
    /\ pc = "config"
    /\ Len(category_table) < MaxCategories
    /\ \E c \in CategoryPool :
        /\ \A i \in DOMAIN category_table : category_table[i].category # c.category
        /\ category_table' = Append(category_table, c)
    /\ UNCHANGED <<pc, entity_type_arg, normalized>>
    /\ UNCHANGED notNormalizer

\* normalize_entity_type(entity_type, entity_categories)
Normalize ==
    /\ pc = "config"
    /\ \E entity_type \in NormalizedTypes :
        /\ entity_type_arg' = entity_type
        /\ normalized' = NormalizeIn(entity_type, category_table)
    /\ pc' = "normalized"
    /\ UNCHANGED category_table
    /\ UNCHANGED notNormalizer

NormalizerNext == LoadCategory \/ Normalize
SpecNormalizer == NormalizerInit /\ [][NormalizerNext]_vars

----------------------------------------------------------------------------
(* Properties of normalize_entity_type *)

\* the positions of the categories whose member list holds the entity type
CategoriesHolding(table, entity_type) ==
    {i \in DOMAIN table : \E k \in DOMAIN table[i].types :
                                table[i].types[k] = entity_type}

\* C16: normalize_entity_type returns the upper-cased name of the first
\* category whose member list holds the entity type, and the entity type
\* itself when no category holds it; when the entity type is in at most one
\* category the result is the same in every iteration order of the table
C16_FirstCategory ==
    pc = "normalized" =>
        LET hits == CategoriesHolding(category_table, entity_type_arg)
        IN  /\ hits = {} => normalized = entity_type_arg
            /\ hits # {} =>
                LET first == CHOOSE i \in hits : \A j \in hits : i <= j
                IN  /\ normalized = Upper(category_table[first].category)
                    /\ normalized \in {"PERSON", "LOCATION", "ADDRESS", "CONTACT",
                                       "PHONE"}
            /\ Cardinality(hits) <= 1 =>
                \A table \in PermutationsOf(category_table) :
                    NormalizeIn(entity_type_arg, table) = normalized

\* a type held by two of three categories was normalized
C16_Witness ==
    /\ pc = "normalized"
    /\ Len(category_table) = 3
    /\ Cardinality(CategoriesHolding(category_table, entity_type_arg)) = 2
    /\ normalized = "ADDRESS"

----------------------------------------------------------------------------
(* Properties of the output of dual detection *)

\* the elements of s at the positions in A, in the order of s
RECURSIVE PickFrom(_, _, _)
PickFrom(s, A, i) ==
    IF i > Len(s) THEN <<>>
    ELSE IF i \in A THEN <<s[i]>> \o PickFrom(s, A, i + 1)
    ELSE PickFrom(s, A, i + 1)

NeedsConsensus(p) ==
    p.entity_type \in {"PERSON", "JP_PERSON", "LOCATION", "JP_ADDRESS"}

Confirming(p) ==
    transformer_results[CHOOSE k \in DOMAIN transformer_results :
        /\ Qualifies(p, transformer_results[k])
        /\ \A j \in 1..(k - 1) : ~Qualifies(p, transformer_results[j])]

\* C18: for every consensus candidate dual_detection_analyze retains,
\* dual_scores[(start,end)] holds that candidate's pattern score and entity
\* type and the score and entity type of the precision-side result that
\* confirmed it, also when retained candidates share (start,end)
C18_ScoresOfEveryRetained ==
    pc = "confirmed" =>
        \A i \in DOMAIN confirmed_results :
            LET p == confirmed_results[i]
            IN  NeedsConsensus(p) =>
                    /\ <<p.start, p.end>> \in DOMAIN dual_scores
                    /\ dual_scores[<<p.start, p.end>>] =
                            [pattern |-> p.score,
                             transformer |-> Confirming(p).score,
                             p_type |-> p.entity_type,
                             t_type |-> Confirming(p).entity_type]

----------------------------------------------------------------------------
(* Properties of the local merge of the extractor *)

\* w is of a strictly higher priority than d, or of the same priority and a
\* score at least as high
Outranks(w, d) ==
    \/ priority_key(w) < priority_key(d)
    \/ priority_key(w) = priority_key(d) /\ w.score >= d.score

\* C19: the candidates extract returns are pairwise non-overlapping; each is
\* one of the candidates found, as it was found; every candidate that was
\* dropped overlaps another candidate found that is of a strictly higher
\* priority, or of the same priority and a score at least as high
C19_LocalMerge ==
    pc = "extracted" =>
        /\ PairwiseDisjoint(extracted)
        /\ \A k \in DOMAIN extracted :
            /\ Count(found, extracted[k]) >= 1
            /\ Count(extracted, extracted[k]) <= Count(found, extracted[k])
        /\ \A i \in DOMAIN found :
            Count(extracted, found[i]) < Count(found, found[i]) =>
                \E j \in DOMAIN found \ {i} :
                    /\ RangesOverlap(found[j], found[i])
                    /\ Outranks(found[j], found[i])

\* of three candidates found, one was dropped for a candidate of a higher
\* priority that starts later, one for a candidate of its own priority
C19_Witness ==
    /\ pc = "extracted"
    /\ Len(found) = 3
    /\ Len(extracted) = 1
    /\ \E i, j \in DOMAIN found :
        /\ found[j] = extracted[1]
        /\ found[i].start < found[j].start
        /\ priority_key(found[j]) < priority_key(found[i])
    /\ \E i, j \in DOMAIN found :
        /\ i # j
        /\ found[j] = extracted[1]
        /\ priority_key(found[j]) = priority_key(found[i])

\* C20: with no entity_priority configured the local merge of the extractor
\* ranks the entity types as the collision resolution of the verifier does
\* (email, phone(JP), phone, postal(JP), postal(US), address, location,
\* person(JP), person, dob(JP), date, age, gender): of two overlapping
\* candidates found, the one the verifier's order puts first is the one
\* extract returns
C20_SameDefaultOrder ==
    (pc = "extracted" /\ Len(found) = 2) =>
        \A i, j \in DOMAIN found :
            (/\ RangesOverlap(found[i], found[j])
             /\ GetPriority(found[i]) < GetPriority(found[j]))
                => extracted = <<found[i]>>

----------------------------------------------------------------------------
(* Properties of the results excluded by collision resolution *)

\* C28: after verify every result excluded with reason
\* collision_lower_priority overlaps a result of the returned list that is
\* still mask or review
C28_LoserOverlapsSurvivor ==
    pc \in {"verified", "converted"} =>
        \A k \in DOMAIN verification_results :
            verification_results[k].reason = "collision_lower_priority" =>
                \E j \in DOMAIN verification_results :
                    /\ IsActive(verification_results[j])
                    /\ RangesOverlap(verification_results[j].candidate,
                                     verification_results[k].candidate)

\* C30: normalize_entity_type gives two different entity types the same
\* value only if one category of the table lists both; so a result of a type
\* that no category lists never has the normalized value of another type
C30_SameValueSameCategory ==
    pc = "normalized" =>
        \A other \in NormalizedTypes \ {entity_type_arg} :
            NormalizeIn(other, category_table) = normalized =>
                \E i \in CategoriesHolding(category_table, entity_type_arg) :
                    i \in CategoriesHolding(category_table, other)

----------------------------------------------------------------------------
(* core/processors/structure_restorer.py *)

\* text[start:end]
Slice(text, start, end) == SubSeq(text, start + 1, end)

\* length of the run of characters of class that text starts with
RECURSIVE RunLength(_, _)
RunLength(text, class) ==
    IF text # <<>> /\ Head(text) \in class
    THEN 1 + RunLength(Tail(text), class) ELSE 0

\* text.replace(from, to) for single characters
ReplaceChar(text, from, to) ==
    [i \in DOMAIN text |-> IF text[i] = from THEN to ELSE text[i]]

\* re.sub(r'[ \t]{2,}', ' ', text)
RECURSIVE CollapseSpaces(_)
CollapseSpaces(text) ==
    IF text = <<>> THEN <<>>
    ELSE LET n == RunLength(text, {" ", "\t"})
         IN  IF n >= 2
             THEN <<" ">> \o CollapseSpaces(SubSeq(text, n + 1, Len(text)))
             ELSE <<Head(text)>> \o CollapseSpaces(Tail(text))

\* re.sub(r'\n{3,}', '\n\n', text)
RECURSIVE CollapseNewlines(_)
CollapseNewlines(text) ==
    IF text = <<>> THEN <<>>
    ELSE LET n == RunLength(text, {"\n"})
         IN  IF n >= 3
             THEN <<"\n", "\n">> \o CollapseNewlines(SubSeq(text, n + 1, Len(text)))
             ELSE <<Head(text)>> \o CollapseNewlines(Tail(text))

_normalize_text(text) ==
    Strip(CollapseNewlines(CollapseSpaces(ReplaceChar(text, IdeographicSpace, " "))))

\* text.split('\n')
RECURSIVE SplitLines(_)
SplitLines(text) ==
    LET n == RunLength(text, {c \in {text[i] : i \in DOMAIN text} : c # "\n"})
    IN  IF n = Len(text) THEN <<text>>
        ELSE <<SubSeq(text, 1, n)>> \o SplitLines(SubSeq(text, n + 2, Len(text)))

\* [line.strip() for line in lines if line.strip()]
_split_into_lines(text) ==
    LET lines == SplitLines(text)
        stripped == [i \in DOMAIN lines |-> Strip(lines[i])]
    IN  SelectSeq(stripped, LAMBDA line : line # <<>>)

\* text.find(pattern, from): the lowest index at or after from, or -1
Find(text, pattern, from) ==
    LET hits == {i \in from..(Len(text) - Len(pattern)) :
                    Slice(text, i, i + Len(pattern)) = pattern}
    IN  IF hits = {} THEN -1 ELSE CHOOSE i \in hits : \A j \in hits : i <= j

\* pattern in text
Contains(text, pattern) == Find(text, pattern, 0) # -1

Gaku == "U+5B66"
Reki == "U+6B74"
Shoku == "U+8077"
Juu == "U+4F4F"
Sho == "U+6240"

\* DEFAULT_SECTION_HEADINGS, in the order of the dict: the headings that can be
\* written with the characters of the modelled documents
section_headings ==
    << [section_type |-> "contact", ja |-> <<<<Juu, Sho>>>>,
        en |-> <<<<"C", "o", "n", "t", "a", "c", "t">>>>],
       [section_type |-> "education", ja |-> <<<<Gaku, Reki>>>>,
        en |-> <<<<"E", "D", "U", "C", "A", "T", "I", "O", "N">>>>],
       [section_type |-> "experience", ja |-> <<<<Shoku, Reki>>>>, en |-> <<>>] >>

\* the entry of section_headings that text matches
HeadingMatches(entry, text) ==
    \/ \E i \in DOMAIN entry.ja : Contains(Strip(text), entry.ja[i])
    \/ \E i \in DOMAIN entry.en :
            \/ Contains(Strip(Lower(text)), Lower(entry.en[i]))
            \/ entry.en[i] = Strip(text)

\* _classify_heading: the first section type with a matching heading, or "none"
_classify_heading(text) ==
    LET matching == {k \in DOMAIN section_headings :
                        HeadingMatches(section_headings[k], text)}
    IN  IF matching = {} THEN "none"
        ELSE section_headings[CHOOSE k \in matching :
                                \A j \in matching : k <= j].section_type

SectionHeading(section_type, char_start, char_end, line_number) ==
    [section_type |-> section_type, char_start |-> char_start,
     char_end |-> char_end, line_number |-> line_number]

\* _detect_sections: line_num counts from 0
RECURSIVE DetectScan(_, _, _, _, _)
DetectScan(lines, full_text, line_num, current_pos, headings) ==
    IF line_num >= Len(lines) THEN headings
    ELSE LET line_stripped == Strip(lines[line_num + 1])
             line_start == Find(full_text, line_stripped, current_pos)
             line_end == line_start + Len(line_stripped)
             section_type == _classify_heading(line_stripped)
         IN  IF line_start = -1
             THEN DetectScan(lines, full_text, line_num + 1, current_pos, headings)
             ELSE DetectScan(lines, full_text, line_num + 1, line_end,
                             IF section_type # "none"
                             THEN Append(headings,
                                         SectionHeading(section_type, line_start,
                                                        line_end, line_num))
                             ELSE headings)

_detect_sections(lines, full_text) == DetectScan(lines, full_text, 0, 0, <<>>)

\* f"section_{section_count}"
SectionId(section_count) == <<"section", section_count>>

TextSegment(section_id, section_type, line_text, char_start, char_end, line_number) ==
    [section_id |-> section_id, section_type |-> section_type,
     line_text |-> line_text, char_start |-> char_start, char_end |-> char_end,
     line_number |-> line_number]

\* no heading is recognized on any line
HeadingAtNone(section_boundaries, line_num) == {}

\* the heading found on line line_num, as a set of at most one section type
HeadingAt(section_boundaries, line_num) ==
    {section_boundaries[k].section_type :
        k \in {j \in DOMAIN section_boundaries :
                    section_boundaries[j].line_number = line_num}}

\* a line search that starts from position 0 for every line
LineStartRescanned(full_text, line_stripped, current_pos) ==
    Find(full_text, line_stripped, 0)

\* the line search of _create_segments
LineStart(full_text, line_stripped, current_pos) ==
    Find(full_text, line_stripped, current_pos)

\* the loop of _create_segments; boundaries is section_boundaries and
\* current_type is current_section_type
RECURSIVE SegmentScan(_, _, _, _, _, _, _, _)
SegmentScan(lines, full_text, boundaries, line_num, current_pos, current_type, section_count, acc) ==
    IF line_num >= Len(lines) THEN acc
    ELSE LET line_stripped == Strip(lines[line_num + 1])
             line_start == LineStart(full_text, line_stripped, current_pos)
             line_end == line_start + Len(line_stripped)
             here == HeadingAt(boundaries, line_num)
             count == IF here = {} THEN section_count ELSE section_count + 1
             type == IF here = {} THEN current_type
                     ELSE CHOOSE t \in here : TRUE
         IN  IF line_stripped = <<>> \/ line_start = -1
             THEN SegmentScan(lines, full_text, boundaries, line_num + 1,
                              current_pos, current_type, section_count, acc)
             ELSE SegmentScan(lines, full_text, boundaries, line_num + 1,
                              line_end, type, count,
                              Append(acc, TextSegment(SectionId(count), type,
                                                      line_stripped, line_start,
                                                      line_end, line_num)))

_create_segments(lines, full_text, section_boundaries) ==
    SegmentScan(lines, full_text, section_boundaries, 0, 0, "header", 0, <<>>)

\* StructureRestorer.restore
restore(text) ==
    LET normalized_full == _normalize_text(text)
        lines == _split_into_lines(normalized_full)
    IN  _create_segments(lines, normalized_full,
                         _detect_sections(lines, normalized_full))

----------------------------------------------------------------------------
(* core/processors/candidate_extractor.py: extraction from segments *)

Otoko == "U+7537"
Onna == "U+5973"
Sei == "U+6027"
Tokyo == <<"U+6771", "U+4EAC", "U+90FD">>

\* a gap is not filled
NoSpaces(n) == <<>>

\* the spaces that fill a gap of n characters
Spaces(n) == [i \in 1..n |-> " "]

\* _reconstruct_text: the segments in char_start order, gaps filled with spaces
RECURSIVE ReconstructScan(_, _, _)
ReconstructScan(sorted_segments, last_end, text) ==
    IF sorted_segments = <<>> THEN text
    ELSE LET segment == Head(sorted_segments)
             gap == IF segment.char_start > last_end
                    THEN Spaces(segment.char_start - last_end) ELSE <<>>
         IN  ReconstructScan(Tail(sorted_segments), segment.char_end,
                             text \o gap \o segment.line_text)

SegmentStartLess(x, y) == x.char_start < y.char_start

_reconstruct_text(segs) ==
    ReconstructScan(StableSort(segs, SegmentStartLess), 0, <<>>)

\* GENDER_PATTERNS[0]: an optional bracket, spaces, the word, spaces, an
\* optional bracket
GENDER_PATTERN ==
    << Piece({"U+FF08", "("}, 0, 1), AtLeast(Whitespace, 0),
       Piece({Otoko, Onna}, 1, 1), Opt(Sei), AtLeast(Whitespace, 0),
       Piece({"U+FF09", ")"}, 0, 1) >>

\* pattern.finditer(text) from position from: the <<start, end>> of the
\* matches, each the longest at the leftmost position, none overlapping
RECURSIVE FindIter(_, _, _)
FindIter(text, pattern, from) ==
    IF from >= Len(text) THEN <<>>
    ELSE LET ends == Ends(SubSeq(text, from + 1, Len(text)), pattern) \ {0}
         IN  IF ends = {} THEN FindIter(text, pattern, from + 1)
             ELSE LET e == CHOOSE x \in ends : \A y \in ends : y <= x
                  IN  <<<<from, from + e>>>> \o FindIter(text, pattern, from + e)

\* _extract_gender
_extract_gender(text, offset, segment) ==
    LET matches == FindIter(text, GENDER_PATTERN, 0)
    IN  [i \in DOMAIN matches |->
            Candidate("JP_GENDER", Slice(text, matches[i][1], matches[i][2]),
                      offset + matches[i][1], offset + matches[i][2], 80,
                      segment.section_type)]

\* JP_ADDRESS_PREFIXES: the prefectures that the modelled documents can hold
JP_ADDRESS_PREFIXES == <<Tokyo>>

\* the delimiters that end an address
address_delimiters ==
    << <<"\n">>, <<IdeographicSpace>>, <<" ", " ">>, <<"T", "E", "L">>,
       <<"t", "e", "l">> >>

\* text[start_idx:end_idx].strip()
AddressText(text, start_idx, end_idx) == Strip(Slice(text, start_idx, end_idx))

\* the end of the address: the earliest delimiter after start_idx, or the end
AddressEnd(text, start_idx) ==
    LET rest == Slice(text, start_idx, Len(text))
        cuts == {start_idx + Find(rest, address_delimiters[d], 0) :
                    d \in {k \in DOMAIN address_delimiters :
                                Contains(rest, address_delimiters[k])}}
                \cup {Len(text)}
    IN  CHOOSE e \in cuts : \A x \in cuts : e <= x

\* _extract_jp_addresses
_extract_jp_addresses(text, offset, segment) ==
    LET present == SelectSeq(JP_ADDRESS_PREFIXES,
                             LAMBDA prefecture : Contains(text, prefecture))
        StartOf(prefecture) == Find(text, prefecture, 0)
        TextOf(prefecture) ==
            AddressText(text, StartOf(prefecture),
                        AddressEnd(text, StartOf(prefecture)))
        accepted == SelectSeq(present, LAMBDA prefecture :
                        Len(TextOf(prefecture)) > Len(prefecture) + 2)
    IN  [i \in DOMAIN accepted |->
            Candidate("JP_ADDRESS", TextOf(accepted[i]),
                      offset + StartOf(accepted[i]),
                      offset + StartOf(accepted[i]) + Len(TextOf(accepted[i])),
                      75, segment.section_type)]

\* _extract_from_segment: of its extractors only these two can match a line
\* written with the characters of the modelled documents
_extract_from_segment(segment) ==
    _extract_gender(segment.line_text, segment.char_start, segment)
        \o _extract_jp_addresses(segment.line_text, segment.char_start, segment)

RECURSIVE ExtractFromSegments(_)
ExtractFromSegments(segs) ==
    IF segs = <<>> THEN <<>>
    ELSE _extract_from_segment(Head(segs)) \o ExtractFromSegments(Tail(segs))

\* get_section_for_position, section type only
get_section_for_position(segs, pos) ==
    LET holding == {k \in DOMAIN segs :
                        segs[k].char_start <= pos /\ pos < segs[k].char_end}
    IN  IF holding = {} THEN "unknown"
        ELSE segs[CHOOSE k \in holding : \A j \in holding : k <= j].section_type

\* the entities a NER engine reports on the reconstructed text: one line, or
\* the whole text
NerSpans(segs) ==
    {<<segs[k].char_start, segs[k].char_end>> : k \in DOMAIN segs}
        \cup {<<0, Len(_reconstruct_text(segs))>>}

\* _extract_ner_candidates for the entities of spans
NerCandidate(full_text, segs, span) ==
    Candidate("JP_PERSON", Slice(full_text, span[1], span[2]), span[1], span[2],
              70, get_section_for_position(segs, span[1]))

----------------------------------------------------------------------------
(* file_io/file_processor.py: the structure-aware pipeline on one document *)

MaxPieces == 4      \* pieces of one raw document text handed to restore
MaxDocPieces == 3   \* pieces of one raw document text sent through the pipeline
MaxNer == 1         \* entities a NER engine reports on one document

\* what a raw document is written with
DocumentPieces ==
    { <<" ">>, <<"\n">>, <<IdeographicSpace>>, <<Gaku, Reki>>, <<Shoku, Reki>>,
      <<Otoko>>, Tokyo \o <<"1", "2", "3">>, <<"T", "E", "L">> }

RECURSIVE DocumentTexts(_)
DocumentTexts(n) ==
    IF n = 0 THEN {<<>>}
    ELSE LET shorter == DocumentTexts(n - 1)
         IN  shorter \cup {t \o p : t \in shorter, p \in DocumentPieces}

\* a raw text about to be restored
RestoreInit ==
    /\ pc = "raw"
    /\ raw_text \in DocumentTexts(MaxPieces)
    /\ normalized_text = <<>>
    /\ segments = <<>>
    /\ anonymizer_text = <<>>
    /\ MaskerIdle /\ VerifierIdle /\ DualIdle
    /\ CallsIdle /\ AdapterIdle /\ ExtractorIdle /\ NormalizerIdle
    /\ ToolsIdle

\* a raw text about to go through the whole pipeline
DocumentInit ==
    /\ pc = "raw"
    /\ raw_text \in DocumentTexts(MaxDocPieces)
    /\ normalized_text = <<>>
    /\ segments = <<>>
    /\ anonymizer_text = <<>>
    /\ MaskerIdle /\ VerifierIdle /\ DualIdle
    /\ CallsIdle /\ AdapterIdle /\ ExtractorIdle /\ NormalizerIdle
    /\ ToolsIdle

\* TextPreprocessor.process, step 1: structure_restorer.restore(raw_text)
Restore ==
    /\ pc = "raw"
    /\ normalized_text' = _normalize_text(raw_text)
    /\ segments' = restore(raw_text)
    /\ pc' = "restored"
    /\ UNCHANGED <<raw_text, anonymizer_text>>
    /\ UNCHANGED <<maskerVars, verifierVars, dualVars, callVars, adapterVars,
                   extractorVars, normalizerVars, toolVars>>

\* TextPreprocessor.process, step 2: candidate_extractor.extract(segments)
ExtractFromDocument ==
    /\ pc = "restored"
    /\ \E n \in 0..MaxNer : \E spans \in [1..n -> NerSpans(segments)] :
        LET full_text == _reconstruct_text(segments)
        IN  /\ \A i \in 1..n : spans[i][1] < spans[i][2]
            /\ found' = ExtractFromSegments(segments)
                            \o [i \in 1..n |->
                                    NerCandidate(full_text, segments, spans[i])]
    /\ extracted' = ExtractResult(found')
    /\ pc' = "extracted"
    /\ UNCHANGED <<maskerVars, verifierVars, dualVars, callVars, adapterVars,
                   normalizerVars, laterVars>>

\* _process_with_preprocessor: anonymizer.anonymize(text=text, ...) and the log
\* lines, which quote text[result.start:result.end]
Anonymize ==
    /\ pc = "converted"
    /\ anonymizer_text' = raw_text
    /\ pc' = "anonymized"
    /\ UNCHANGED <<raw_text, normalized_text, segments>>
    /\ UNCHANGED <<maskerVars, verifierVars, dualVars, callVars, adapterVars,
                   extractorVars, normalizerVars, toolVars>>

DocumentNext ==
    Restore \/ ExtractFromDocument \/ ProcessText \/ ConvertResults \/ Anonymize
SpecDocument == DocumentInit /\ [][DocumentNext]_vars

\* StructureRestorer.restore alone
SpecRestore == RestoreInit /\ [][Restore]_vars

----------------------------------------------------------------------------
(* Properties of the document pipeline *)

\* the positions (from 1) of the first non-blank character of each line of text
LineStarts(text) ==
    {i \in DOMAIN text :
        /\ text[i] \notin Whitespace
        /\ \A j \in 1..(i - 1) :
                (\A k \in j..(i - 1) : text[k] # "\n") => text[j] \in Whitespace}

\* the segments at or before segment k that are heading lines
HeadingsUpTo(segs, k) ==
    {j \in 1..k : _classify_heading(segs[j].line_text) # "none"}

SetMax(S) == CHOOSE x \in S : \A y \in S : y <= x

\* C21: a line before the first heading is tagged header and section_0; a
\* later line carries the type of the most recent heading at or before it and
\* section_k, k the number of heading lines at or before it; section ids never
\* decrease and every non-blank line of the normalized text yields exactly one
\* segment
C21_SectionTags ==
    pc # "raw" =>
        /\ Len(segments) = Cardinality(LineStarts(normalized_text))
        /\ \A k \in DOMAIN segments :
            LET hs == HeadingsUpTo(segments, k)
            IN  /\ segments[k].section_id = SectionId(Cardinality(hs))
                /\ segments[k].section_type =
                        IF hs = {} THEN "header"
                        ELSE _classify_heading(segments[SetMax(hs)].line_text)
                /\ segments[k].char_start + 1 \in LineStarts(normalized_text)
                /\ \A j \in 1..(k - 1) :
                        segments[j].section_id[2] <= segments[k].section_id[2]

C21_Witness ==
    /\ pc = "restored"
    /\ Len(segments) = 2
    /\ segments[1].section_type = "header"
    /\ segments[1].section_id = SectionId(0)
    /\ segments[2].section_type = "experience"
    /\ segments[2].section_id = SectionId(1)

\* C22: the segments have strictly increasing, non-overlapping ranges with
\* 0 <= char_start < char_end, and the normalized text between char_start and
\* char_end is the segment's line_text, also for a line text that occurs twice
C22_SegmentRanges ==
    pc # "raw" =>
        \A k \in DOMAIN segments :
            /\ 0 <= segments[k].char_start
            /\ segments[k].char_start < segments[k].char_end
            /\ segments[k].char_end <= Len(normalized_text)
            /\ Slice(normalized_text, segments[k].char_start, segments[k].char_end)
                    = segments[k].line_text
            /\ \A j \in 1..(k - 1) :
                    /\ segments[j].char_start < segments[k].char_start
                    /\ segments[j].char_end <= segments[k].char_start

C22_Witness ==
    /\ pc = "restored"
    /\ Len(segments) = 2
    /\ segments[1].line_text = segments[2].line_text
    /\ segments[1].char_end < segments[2].char_start
    /\ Len(normalized_text) < Len(raw_text)

\* C23: every candidate that extract returns has start < end and its text is
\* the reconstructed text between start and end
C23_CandidateText ==
    pc \in {"extracted", "verified", "converted", "anonymized"} =>
        LET full_text == _reconstruct_text(segments)
        IN  \A k \in DOMAIN extracted :
                /\ extracted[k].start < extracted[k].end
                /\ extracted[k].end <= Len(full_text)
                /\ extracted[k].text
                        = Slice(full_text, extracted[k].start, extracted[k].end)

\* an address cut before a delimiter and stripped and a NER entity were found,
\* and the address was returned
C23_Witness ==
    /\ pc = "extracted"
    /\ \E k \in DOMAIN found : found[k].entity_type = "JP_PERSON"
    /\ \E k \in DOMAIN extracted :
            /\ extracted[k].entity_type = "JP_ADDRESS"
            /\ \E s \in DOMAIN segments :
                    /\ segments[s].char_start <= extracted[k].start
                    /\ extracted[k].end + 1 < segments[s].char_end
                    /\ segments[s].line_text[extracted[k].end
                            - segments[s].char_start + 1] = " "

\* C29: every result handed to the anonymizer indexes the text the anonymizer
\* is given: that text between start and end is the candidate's text
C29_SpansIndexAnonymizerText ==
    pc = "anonymized" =>
        \A k \in DOMAIN verification_results :
            verification_results[k].status = "mask" =>
                LET c == verification_results[k].candidate
                IN  /\ c.end <= Len(anonymizer_text)
                    /\ Slice(anonymizer_text, c.start, c.end) = c.text

----------------------------------------------------------------------------
(* recognizers/transformer_ner.py: the token-label walk *)

MaxTokens == 3      \* tokens of one analyzed text

\* a label of id2label: "B-" or "I-" before a name, or a bare name
Label(prefix, name) == [prefix |-> prefix, name |-> name]

Jinmei == "U+4EBA U+540D"
Sonota == "U+305D U+306E U+4ED6"

NerLabels ==
    {Label("B-", "PER"), Label("I-", "PER"), Label("I-", "LOC"),
     Label("B-", "MISC"), Label("", "O"), Label("", Jinmei), Label("", Sonota)}

\* label_mapping.get(label, None): "none" stands for None
label_map(label) ==
    CASE label.prefix # "" /\ label.name = "PER" -> "PERSON"
      [] label.prefix # "" /\ label.name = "LOC" -> "LOCATION"
      [] label.prefix = "" /\ label.name = Jinmei -> "JP_PERSON"
      [] OTHER -> "none"

TokenScores == {80, 100}

\* a token of the model output; a special token has the offsets (0, 0)
Token(label, score, token_start, token_end) ==
    [label |-> label, score |-> score, token_start |-> token_start,
     token_end |-> token_end]

\* the entity under construction; its score is score_sum / token_count
NewEntity(entity_type, token) ==
    [entity_type |-> entity_type, start |-> token.token_start,
     end |-> token.token_end, score_sum |-> token.score, token_count |-> 1]

\* current_entity extended by one token
Extended(entity, token) ==
    [entity EXCEPT !.end = token.token_end,
                   !.score_sum = @ + token.score,
                   !.token_count = @ + 1]

\* _build_entities: current is the list of at most one open entity
RECURSIVE BuildScan(_, _, _)
BuildScan(tokens, entities, current) ==
    IF tokens = <<>> THEN entities \o current
    ELSE LET token == Head(tokens)
             label == token.label
             is_bio_begin == label.prefix = "B-"
             is_bio_inside == label.prefix = "I-"
             is_outside == label = Label("", "O")
             is_non_bio_entity == ~is_bio_begin /\ ~is_bio_inside /\ ~is_outside
             entity_type == label_map(label)
             same == current # <<>> /\ current[1].entity_type = entity_type
         IN  IF token.token_start = 0 /\ token.token_end = 0
             THEN BuildScan(Tail(tokens), entities, current)
             ELSE IF is_bio_begin
             THEN BuildScan(Tail(tokens), entities \o current,
                            IF entity_type # "none"
                            THEN <<NewEntity(entity_type, token)>> ELSE <<>>)
             ELSE IF is_bio_inside /\ current # <<>>
             THEN BuildScan(Tail(tokens), entities,
                            IF same THEN <<Extended(current[1], token)>>
                            ELSE current)
             ELSE IF is_non_bio_entity
             THEN IF entity_type # "none"
                  THEN IF same
                       THEN BuildScan(Tail(tokens), entities,
                                      <<Extended(current[1], token)>>)
                       ELSE BuildScan(Tail(tokens), entities \o current,
                                      <<NewEntity(entity_type, token)>>)
                  ELSE BuildScan(Tail(tokens), entities \o current, <<>>)
             ELSE IF is_outside
             THEN BuildScan(Tail(tokens), entities \o current, <<>>)
             ELSE BuildScan(Tail(tokens), entities, current)

_build_entities(tokens) == BuildScan(tokens, <<>>, <<>>)

\* the end offset of the last token that is not a special token
LastOffset(tokens) ==
    LET real == SelectSeq(tokens, LAMBDA t : t.token_end # 0)
    IN  IF real = <<>> THEN 0 ELSE real[Len(real)].token_end

NerWalkInit ==
    /\ pc = "tokens"
    /\ ner_tokens = <<>>
    /\ ner_entities = <<>>
    /\ MaskerIdle /\ VerifierIdle /\ DualIdle
    /\ CallsIdle /\ AdapterIdle /\ ExtractorIdle /\ NormalizerIdle
    /\ DocumentIdle /\ GptIdle /\ RegistryIdle /\ LoggerIdle

\* the tokenizer and the model report one more token, two characters long
Tokenize ==
    /\ pc = "tokens"
    /\ Len(ner_tokens) < MaxTokens
    /\ \E label \in NerLabels, score \in TokenScores :
            ner_tokens' = Append(ner_tokens,
                Token(label, score, LastOffset(ner_tokens),
                      LastOffset(ner_tokens) + 2))
    /\ UNCHANGED <<pc, ner_entities>>
    /\ UNCHANGED <<earlyVars, documentVars, gptVars, registryVars, loggerVars>>

\* the tokenizer reports a special token ([CLS], [SEP], [PAD])
TokenizeSpecial ==
    /\ pc = "tokens"
    /\ Len(ner_tokens) < MaxTokens
    /\ ner_tokens' = Append(ner_tokens, Token(Label("", "O"), 100, 0, 0))
    /\ UNCHANGED <<pc, ner_entities>>
    /\ UNCHANGED <<earlyVars, documentVars, gptVars, registryVars, loggerVars>>

\* analyze calls _build_entities on the tokens
BuildEntities ==
    /\ pc = "tokens"
    /\ ner_entities' = _build_entities(ner_tokens)
    /\ pc' = "built"
    /\ UNCHANGED ner_tokens
    /\ UNCHANGED <<earlyVars, documentVars, gptVars, registryVars, loggerVars>>

NerWalkNext == Tokenize \/ TokenizeSpecial \/ BuildEntities
SpecNerWalk == NerWalkInit /\ [][NerWalkNext]_vars

\* C24: every span _build_entities emits covers only tokens whose labels map
\* to the span's category
C24_SpanCoversOwnCategory ==
    pc = "built" =>
        \A k \in DOMAIN ner_entities : \A t \in DOMAIN ner_tokens :
            ( /\ ner_tokens[t].token_end # 0
              /\ ner_entities[k].start <= ner_tokens[t].token_start
              /\ ner_tokens[t].token_end <= ner_entities[k].end )
                => label_map(ner_tokens[t].label) = ner_entities[k].entity_type

----------------------------------------------------------------------------
(* recognizers/gpt_pii_masker.py: span recovery *)

MaxMasked == 3      \* tags and text chunks of one generated text

\* TAG_TO_ENTITY_DEFAULT, the tags of the modelled generated texts
tag_to_entity ==
    [tag \in {"<name>", "<customer-id>"} |->
        IF tag = "<name>" THEN "JP_PERSON" ELSE "CUSTOMER_ID_JP"]

\* a _SpanRecoveryConfig given to the constructor, its span limits within the
\* length of the modelled texts
span_recovery ==
    [min_anchor_len |-> 6, max_span_default |-> 4,
     max_span_by_entity |-> [entity_type \in {"JP_PERSON"} |-> 3]]

max_span_for(entity_type) ==
    IF entity_type \in DOMAIN span_recovery.max_span_by_entity
    THEN span_recovery.max_span_by_entity[entity_type]
    ELSE span_recovery.max_span_default

\* _normalize_for_match: one character for one character
_normalize_for_match(text) == ReplaceChar(text, IdeographicSpace, " ")

\* a piece of _TAG_SPLIT_RE.split: a tag, or the text between two tags
TagPiece(tag) == [tag |-> tag, text |-> <<>>]
TextPiece(text) == [tag |-> "", text |-> text]

\* [p for p in _TAG_SPLIT_RE.split(masked_text) if p != ""]
RECURSIVE SplitTags(_, _)
SplitTags(masked, text) ==
    IF masked = <<>>
    THEN IF text = <<>> THEN <<>> ELSE <<TextPiece(text)>>
    ELSE IF Head(masked) \in DOMAIN tag_to_entity
    THEN (IF text = <<>> THEN <<>> ELSE <<TextPiece(text)>>)
            \o <<TagPiece(Head(masked))>> \o SplitTags(Tail(masked), <<>>)
    ELSE SplitTags(Tail(masked), Append(text, Head(masked)))

\* _find_anchor: <<found, anchor_start, anchor_end>>
_find_anchor(haystack, needle, start) ==
    LET idx == Find(haystack, needle, start)
    IN  IF idx < 0 THEN <<FALSE, 0, 0>> ELSE <<TRUE, idx, idx + Len(needle)>>

Discard(tag, reason) == [tag |-> tag, reason |-> reason]

\* _build_result_from_pending_tag: <<results to append, entries to log>>; the
\* anchor was found by exact search, so anchor_score is 1.0 and the score is
\* base_score
_build_result_from_pending_tag(pending_tag, requested_entities, span_start, span_end) ==
    LET entity_type == tag_to_entity[pending_tag]
        span_len == span_end - span_start
    IN  IF entity_type \notin requested_entities THEN <<<<>>, <<>>>>
        ELSE IF span_end < span_start
        THEN <<<<>>, <<Discard(pending_tag, "negative_span")>>>>
        ELSE IF span_len <= 0
        THEN <<<<>>, <<Discard(pending_tag, "empty_span")>>>>
        ELSE IF span_len > max_span_for(entity_type)
        THEN <<<<>>, <<Discard(pending_tag, "span_too_long")>>>>
        ELSE <<<<RecognizerResult(entity_type, span_start, span_end, 85)>>, <<>>>>

\* the loop of _recover_spans: pending is the list of at most one pending tag;
\* returns <<results, log>>
RECURSIVE RecoverScan(_, _, _, _, _, _, _)
RecoverScan(pieces, match_text, requested_entities, cursor, pending, out, log) ==
    IF pieces = <<>>
    THEN <<out, IF pending = <<>> THEN log
                ELSE Append(log, Discard(pending[1], "no_right_anchor"))>>
    ELSE LET piece == Head(pieces)
             anchor == Strip(_normalize_for_match(piece.text))
             hit == _find_anchor(match_text, anchor, cursor)
             built == _build_result_from_pending_tag(
                            pending[1], requested_entities, cursor, hit[2])
         IN  IF piece.tag # ""
             THEN RecoverScan(Tail(pieces), match_text, requested_entities, cursor,
                              <<piece.tag>>, out, log)
             ELSE IF anchor = <<>> \/ ~hit[1]
             THEN RecoverScan(Tail(pieces), match_text, requested_entities, cursor,
                              pending, out, log)
             ELSE IF pending # <<>>
             THEN RecoverScan(Tail(pieces), match_text, requested_entities, hit[3],
                              <<>>, out \o built[1], log \o built[2])
             ELSE RecoverScan(Tail(pieces), match_text, requested_entities, hit[3],
                              <<>>, out, log)

\* _recover_spans: <<results, log>>
_recover_spans(original, masked, requested_entities) ==
    RecoverScan(SplitTags(masked, <<>>), _normalize_for_match(original),
                requested_entities, 0, <<>>, <<>>, <<>>)

\* the texts given to analyze: two anchors with nothing, two or four
\* characters between them
OriginalTexts ==
    { <<"a", "b", "c", "d">>, <<"a", "b", "X", "Y", "c", "d">>,
      <<"a", "b", "X", "Y", "Z", "W", "c", "d">> }

\* the text chunks the model generates: anchors of the original, a blank, and
\* text that is not in the original
GeneratedChunks == { <<"a", "b">>, <<"c", "d">>, <<IdeographicSpace>>, <<"z">> }

RecoveryInit ==
    /\ pc = "generating"
    /\ original_text \in OriginalTexts
    /\ masked_text = <<>>
    /\ gpt_requested \in {{"JP_PERSON", "CUSTOMER_ID_JP"}, {"JP_PERSON"}}
    /\ gpt_results = <<>>
    /\ discard_log = <<>>
    /\ MaskerIdle /\ VerifierIdle /\ DualIdle
    /\ CallsIdle /\ AdapterIdle /\ ExtractorIdle /\ NormalizerIdle
    /\ DocumentIdle /\ NerIdle /\ RegistryIdle /\ LoggerIdle

\* _generate_masked_text writes a tag
GenerateTag ==
    /\ pc = "generating"
    /\ Len(SplitTags(masked_text, <<>>)) < MaxMasked
    /\ \E tag \in DOMAIN tag_to_entity : masked_text' = Append(masked_text, tag)
    /\ UNCHANGED <<pc, original_text, gpt_requested, gpt_results, discard_log>>
    /\ UNCHANGED <<earlyVars, documentVars, nerVars, registryVars, loggerVars>>

\* _generate_masked_text writes text after a tag or at the start
GenerateText ==
    /\ pc = "generating"
    /\ Len(SplitTags(masked_text, <<>>)) < MaxMasked
    /\ IF masked_text = <<>> THEN TRUE
       ELSE masked_text[Len(masked_text)] \in DOMAIN tag_to_entity
    /\ \E chunk \in GeneratedChunks : masked_text' = masked_text \o chunk
    /\ UNCHANGED <<pc, original_text, gpt_requested, gpt_results, discard_log>>
    /\ UNCHANGED <<earlyVars, documentVars, nerVars, registryVars, loggerVars>>

\* analyze: _recover_spans on a generated text that is not empty
RecoverSpans ==
    /\ pc = "generating"
    /\ masked_text # <<>>
    /\ LET recovered == _recover_spans(original_text, masked_text, gpt_requested)
       IN  /\ gpt_results' = recovered[1]
           /\ discard_log' = recovered[2]
    /\ pc' = "recovered"
    /\ UNCHANGED <<original_text, masked_text, gpt_requested>>
    /\ UNCHANGED <<earlyVars, documentVars, nerVars, registryVars, loggerVars>>

RecoveryNext == GenerateTag \/ GenerateText \/ RecoverSpans
SpecRecovery == RecoveryInit /\ [][RecoveryNext]_vars

\* number of elements of s that satisfy Test
CountIf(s, Test(_)) == Len(SelectSeq(s, Test))

\* C25: every tag of the generated text whose entity type is requested yields
\* a result or a log entry of its own
C25_EveryTagAccounted ==
    pc = "recovered" =>
        \A tag \in DOMAIN tag_to_entity :
            tag_to_entity[tag] \in gpt_requested =>
                CountIf(masked_text, LAMBDA x : x = tag)
                    = CountIf(gpt_results,
                              LAMBDA r : r.entity_type = tag_to_entity[tag])
                      + CountIf(discard_log, LAMBDA d : d.tag = tag)

----------------------------------------------------------------------------
(* model_registry.py: lazy loading *)

MaxRegistryCalls == 4       \* get and list_models calls on one registry

\* config["models"]["registry"]: the registered model ids
model_registry == {"bert_ner_en", "knosing_ner_ja"}

\* the model_id arguments of get
RequestedModelIds == model_registry \cup {"nonexistent_model"}

\* the recognizer that the n-th call of _create_recognizer(model_id) returns
RecognizerInstance(model_id, n) == [model_id |-> model_id, creation |-> n]

\* a failure of an earlier call is not remembered
NeverFailed(model_id, errors) == FALSE

\* model_id in self._load_errors
PreviouslyFailed(model_id, errors) == model_id \in DOMAIN errors

\* list_models: the status of every registered model
list_models(cached, errors) ==
    [model_id \in model_registry |->
        IF model_id \in DOMAIN cached THEN "loaded"
        ELSE IF model_id \in DOMAIN errors THEN "error"
        ELSE "available"]

\* an entry of the call log; returned holds the returned recognizer, if any
GetCall(model_id, result) ==
    [op |-> "get", model_id |-> model_id, returned |-> result,
     statuses |-> <<>>]
ListCall(statuses) ==
    [op |-> "list_models", model_id |-> "", returned |-> <<>>,
     statuses |-> statuses]

RegistryInit ==
    /\ pc = "registry"
    /\ instances = <<>>
    /\ load_errors = <<>>
    /\ creations = [model_id \in RequestedModelIds |-> 0]
    /\ registry_log = <<>>
    /\ MaskerIdle /\ VerifierIdle /\ DualIdle
    /\ CallsIdle /\ AdapterIdle /\ ExtractorIdle /\ NormalizerIdle
    /\ DocumentIdle /\ NerIdle /\ GptIdle /\ LoggerIdle

\* get: the id is not registered, is cached, or failed before
GetKnown ==
    /\ pc = "registry"
    /\ Len(registry_log) < MaxRegistryCalls
    /\ \E model_id \in RequestedModelIds :
        /\ \/ model_id \notin model_registry
           \/ model_id \in DOMAIN instances
           \/ PreviouslyFailed(model_id, load_errors)
        /\ registry_log' = Append(registry_log,
                GetCall(model_id,
                        IF model_id \in model_registry /\ model_id \in DOMAIN instances
                        THEN <<instances[model_id]>> ELSE <<>>))
    /\ UNCHANGED <<pc, instances, load_errors, creations>>
    /\ UNCHANGED <<earlyVars, documentVars, nerVars, gptVars, loggerVars>>

\* get: _create_recognizer returns a recognizer, which is cached
GetLoads ==
    /\ pc = "registry"
    /\ Len(registry_log) < MaxRegistryCalls
    /\ \E model_id \in model_registry :
        /\ model_id \notin DOMAIN instances
        /\ ~PreviouslyFailed(model_id, load_errors)
        /\ creations' = [creations EXCEPT ![model_id] = @ + 1]
        /\ instances' = DictPut(instances, model_id,
                                RecognizerInstance(model_id, creations'[model_id]))
        /\ registry_log' = Append(registry_log,
                                  GetCall(model_id, <<instances'[model_id]>>))
    /\ UNCHANGED <<pc, load_errors>>
    /\ UNCHANGED <<earlyVars, documentVars, nerVars, gptVars, loggerVars>>

\* get: _create_recognizer raises, the error is remembered
GetFails ==
    /\ pc = "registry"
    /\ Len(registry_log) < MaxRegistryCalls
    /\ \E model_id \in model_registry :
        /\ model_id \notin DOMAIN instances
        /\ ~PreviouslyFailed(model_id, load_errors)
        /\ creations' = [creations EXCEPT ![model_id] = @ + 1]
        /\ load_errors' = DictPut(load_errors, model_id, "failed")
        /\ registry_log' = Append(registry_log, GetCall(model_id, <<>>))
    /\ UNCHANGED <<pc, instances>>
    /\ UNCHANGED <<earlyVars, documentVars, nerVars, gptVars, loggerVars>>

ListModels ==
    /\ pc = "registry"
    /\ Len(registry_log) < MaxRegistryCalls
    /\ registry_log' = Append(registry_log,
                              ListCall(list_models(instances, load_errors)))
    /\ UNCHANGED <<pc, instances, load_errors, creations>>
    /\ UNCHANGED <<earlyVars, documentVars, nerVars, gptVars, loggerVars>>

RegistryNext == GetKnown \/ GetLoads \/ GetFails \/ ListModels
SpecRegistry == RegistryInit /\ [][RegistryNext]_vars

\* the get calls on model_id before call j
GetsBefore(model_id, j) ==
    {i \in 1..(j - 1) : /\ registry_log[i].op = "get"
                        /\ registry_log[i].model_id = model_id}

\* C26: a recognizer is created at most once per registered id; once a get
\* returned a recognizer every later get of the id returns that recognizer
\* and list_models reports loaded; once a get of a registered id returned
\* nothing every later get returns nothing and list_models reports error; a
\* get of an unregistered id returns nothing and leaves both caches alone
C26_LazyLoadedOnce ==
    pc = "registry" =>
        /\ \A model_id \in RequestedModelIds : creations[model_id] <= 1
        /\ creations["nonexistent_model"] = 0
        /\ DOMAIN instances \cup DOMAIN load_errors \subseteq model_registry
        /\ \A j \in DOMAIN registry_log :
            LET call == registry_log[j]
                earlier == GetsBefore(call.model_id, j)
            IN  /\ call.op = "get" /\ call.model_id \notin model_registry
                    => call.returned = <<>>
                /\ call.op = "get" =>
                    \A i \in earlier : registry_log[i].returned = call.returned
                /\ call.op = "list_models" =>
                    \A model_id \in model_registry :
                        LET gets == GetsBefore(model_id, j)
                        IN  call.statuses[model_id] =
                                IF gets = {} THEN "available"
                                ELSE IF \E i \in gets :
                                            registry_log[i].returned # <<>>
                                THEN "loaded" ELSE "error"

\* one model was loaded and returned twice, the other failed and was asked
\* for again
C26_Witness ==
    /\ pc = "registry"
    /\ \E i, j \in DOMAIN registry_log :
        /\ i < j
        /\ registry_log[i].op = "get" /\ registry_log[j].op = "get"
        /\ registry_log[i].model_id = registry_log[j].model_id
        /\ registry_log[i].returned # <<>>
    /\ \E i, j \in DOMAIN registry_log :
        /\ i < j
        /\ registry_log[i].op = "get" /\ registry_log[j].op = "get"
        /\ registry_log[i].model_id = registry_log[j].model_id
        /\ registry_log[i].model_id \in DOMAIN load_errors

----------------------------------------------------------------------------
(* masking_logging/masking_logger.py: two documents in process_file *)

MaxLines == 2       \* audit lines one document logs

Documents == {"doc_a", "doc_b"}

\* logging.NullHandler() and logging.FileHandler(log_file_path)
NullHandler == [kind |-> "null", path |-> ""]
FileHandler(log_file_path) == [kind |-> "file", path |-> log_file_path]

\* the log path of a document
LogPath(doc) == IF doc = "doc_a" THEN "a.log" ELSE "b.log"

\* logging.getLogger(name) returns one logger per name, so the handler list
\* belongs to the name "masking" and not to the MaskingLogger instance
LoggerInit ==
    /\ pc = "batch"
    /\ handlers = <<>>
    /\ log_files = [doc \in Documents |-> <<>>]
    /\ doc_pc = [doc \in Documents |-> "start"]
    /\ logged = [doc \in Documents |-> 0]
    /\ MaskerIdle /\ VerifierIdle /\ DualIdle
    /\ CallsIdle /\ AdapterIdle /\ ExtractorIdle /\ NormalizerIdle
    /\ DocumentIdle /\ NerIdle /\ GptIdle /\ RegistryIdle

\* MaskingLogger(): a NullHandler is added when the logger has no handler
NewMaskingLogger(doc) ==
    /\ pc = "batch"
    /\ doc_pc[doc] = "start"
    /\ handlers' = IF handlers = <<>> THEN <<NullHandler>> ELSE handlers
    /\ doc_pc' = [doc_pc EXCEPT ![doc] = "constructed"]
    /\ UNCHANGED <<pc, log_files, logged>>
    /\ UNCHANGED <<earlyVars, documentVars, nerVars, gptVars, registryVars>>

\* setup_file_handler(log_path): every handler but the NullHandler is closed
\* and removed, then the new FileHandler is added
SetupFileHandler(doc) ==
    /\ pc = "batch"
    /\ doc_pc[doc] = "constructed"
    /\ handlers' = Append(SelectSeq(handlers, LAMBDA h : h.kind = "null"),
                          FileHandler(LogPath(doc)))
    /\ doc_pc' = [doc_pc EXCEPT ![doc] = "configured"]
    /\ UNCHANGED <<pc, log_files, logged>>
    /\ UNCHANGED <<earlyVars, documentVars, nerVars, gptVars, registryVars>>

\* the files a record is written to: one per FileHandler of the logger
Emit(files, hs, line) ==
    [doc \in DOMAIN files |->
        IF \E k \in DOMAIN hs : hs[k] = FileHandler(LogPath(doc))
        THEN Append(files[doc], line) ELSE files[doc]]

\* logger.log(message): self._logger.info(message)
Log(doc) ==
    /\ pc = "batch"
    /\ doc_pc[doc] = "configured"
    /\ logged[doc] < MaxLines
    /\ logged' = [logged EXCEPT ![doc] = @ + 1]
    /\ log_files' = Emit(log_files, handlers, [doc |-> doc, line |-> logged'[doc]])
    /\ UNCHANGED <<pc, handlers, doc_pc>>
    /\ UNCHANGED <<earlyVars, documentVars, nerVars, gptVars, registryVars>>

\* process_file returns
Finish(doc) ==
    /\ pc = "batch"
    /\ doc_pc[doc] = "configured"
    /\ doc_pc' = [doc_pc EXCEPT ![doc] = "done"]
    /\ UNCHANGED <<pc, handlers, log_files, logged>>
    /\ UNCHANGED <<earlyVars, documentVars, nerVars, gptVars, registryVars>>

LoggerNext ==
    \E doc \in Documents :
        NewMaskingLogger(doc) \/ SetupFileHandler(doc) \/ Log(doc) \/ Finish(doc)
SpecLogger == LoggerInit /\ [][LoggerNext]_vars

\* C27: every audit line of a document is in that document's log file and in
\* no other, and a document that is being processed keeps its file handler
C27_NoSharedLogState ==
    pc = "batch" =>
        \A doc \in Documents :
            /\ \A k \in DOMAIN log_files[doc] : log_files[doc][k].doc = doc
            /\ Len(log_files[doc]) = logged[doc]
            /\ doc_pc[doc] = "configured" =>
                    \E k \in DOMAIN handlers :
                        handlers[k] = FileHandler(LogPath(doc))

====
